---- MODULE Spec2Model ----
(***************************************************************************)
(* Model of the peptide dashboard (src/src/App.jsx, first App component,   *)
(* and the alert helpers of src/unnamed/part_001).                          *)
(*                                                                         *)
(* Conventions                                                             *)
(*  - A text (the value of an <input>) is a sequence of one-character      *)
(*    strings, so that parseFloat and String.split act on characters.      *)
(*  - A JavaScript number is a record [k, n, d]: k = "fin" is the rational *)
(*    n/d in lowest terms with d > 0; k = "inf" is +Infinity (n = 1) or    *)
(*    -Infinity (n = -1); k = "nan" is NaN.  Arithmetic follows IEEE 754   *)
(*    for the special values; finite results are exact (binary rounding    *)
(*    and the sign of zero are not modelled).                              *)
(*  - A peptide id n stands for the string "p<n>".                         *)
(***************************************************************************)
EXTENDS Integers, Sequences, FiniteSets, TLC

VARIABLES
    calc,      \* App state `calc`: [peptides, dose]
    derived,   \* the memoised `derived` of the last render, or NotComputed
    presets,   \* App state `presets`, most recent first
    now,       \* the clock read by savePreset (new Date())
    last,      \* the handler that ran last: [op, text, dose before]
    alert,     \* an alert: [pattern, start, plan]
    today,     \* the Date the due check is given: minutes since the epoch
    tz,        \* the local time zone: minutes east of UTC
    due,       \* what the due check returned, or NotChecked
    store,     \* localStorage: what is held under each key
    loaded,    \* the last load: [key, fallback, result], or NotLoaded
    saved,     \* the last save: [key, value], or NotSaved
    kpis,      \* App state `kpis`: the texts of the four KPI inputs
    history,   \* App state `history`: one record per saved day
    alerts,    \* App state `alerts`
    doneToday, \* App state `doneToday`: the ids of the alerts ticked
    dueAlerts, \* the memoised `dueAlerts` of the last render
    rows,      \* App state `rows`: the schedule rows
    checklist, \* App state `checklist`: which schedule rows are ticked
    notesText, \* App state `notesText`
    timers,    \* the callbacks setTimeout holds, oldest first
    marked,    \* which alert was ticked on which date: pairs <<dateKey, id>>
    visibleRows, \* the memoised `visibleRows` of the last render
    schedule   \* App state `schedule` (second App): the ids of today's compounds

vars ==
    <<calc, derived, presets, now, last, alert, today, tz, due, store, loaded, saved,
      kpis, history, alerts, doneToday, dueAlerts, rows, checklist, notesText, timers,
      marked, visibleRows, schedule>>
\* the variables of the calculator, and the others
calcVars == <<calc, derived, presets, now, last>>
dashVars ==
    <<kpis, history, alerts, doneToday, dueAlerts, rows, checklist, notesText, timers, marked,
      visibleRows, schedule>>
notCalcVars == <<alert, today, tz, due, loaded, saved, dashVars>>

(***************************************************************************)
(* JavaScript numbers                                                      *)
(***************************************************************************)
RECURSIVE Gcd(_, _)
Gcd(a, b) == IF b = 0 THEN a ELSE Gcd(b, a % b)

Abs(x) == IF x < 0 THEN -x ELSE x

NaN == [k |-> "nan", n |-> 0, d |-> 0]
PInf == [k |-> "inf", n |-> 1, d |-> 0]
NInf == [k |-> "inf", n |-> -1, d |-> 0]
Inf(s) == IF s < 0 THEN NInf ELSE PInf

\* the finite number n/d (d # 0), in lowest terms
Rat(n, d) ==
    LET s == IF d < 0 THEN -1 ELSE 1
        g == Gcd(Abs(n), Abs(d))
    IN  [k |-> "fin", n |-> (s * n) \div g, d |-> (s * d) \div g]

Num(i) == Rat(i, 1)
Zero == Num(0)

Sign(a) == IF a.n < 0 THEN -1 ELSE IF a.n > 0 THEN 1 ELSE 0
IsFinite(a) == a.k = "fin"
IsNaN(a) == a.k = "nan"

\* a + b
NumAdd(a, b) ==
    IF IsNaN(a) \/ IsNaN(b) THEN NaN
    ELSE IF a.k = "inf" /\ b.k = "inf" THEN (IF a.n = b.n THEN a ELSE NaN)
    ELSE IF a.k = "inf" THEN a
    ELSE IF b.k = "inf" THEN b
    ELSE Rat(a.n * b.d + b.n * a.d, a.d * b.d)

\* a * b
NumMul(a, b) ==
    IF IsNaN(a) \/ IsNaN(b) THEN NaN
    ELSE IF a.k = "inf" \/ b.k = "inf"
         THEN (IF Sign(a) = 0 \/ Sign(b) = 0 THEN NaN ELSE Inf(Sign(a) * Sign(b)))
    ELSE Rat(a.n * b.n, a.d * b.d)

\* a / b
NumDiv(a, b) ==
    IF IsNaN(a) \/ IsNaN(b) THEN NaN
    ELSE IF a.k = "inf" /\ b.k = "inf" THEN NaN
    ELSE IF a.k = "inf" THEN Inf(IF Sign(b) < 0 THEN -Sign(a) ELSE Sign(a))
    ELSE IF b.k = "inf" THEN Zero
    ELSE IF Sign(b) = 0 THEN (IF Sign(a) = 0 THEN NaN ELSE Inf(Sign(a)))
    ELSE Rat(a.n * b.d, a.d * b.n)

\* a > 0  (false for NaN)
Gt0(a) == a.k # "nan" /\ a.n > 0

\* x || 0 : NaN and 0 are falsy
OrZero(a) == IF IsNaN(a) \/ (IsFinite(a) /\ a.n = 0) THEN Zero ELSE a

(***************************************************************************)
(* parseFloat: leading white space, an optional sign, then "Infinity" or   *)
(* the longest prefix  digits [. digits]  with at least one digit; NaN     *)
(* when there is none.  (Exponent parts are outside the input alphabet.)   *)
(***************************************************************************)
Digits == <<"0", "1", "2", "3", "4", "5", "6", "7", "8", "9">>
IsDigit(c) == \E i \in 1..10 : Digits[i] = c
DigitVal(c) == (CHOOSE i \in 1..10 : Digits[i] = c) - 1

Drop(s, k) == SubSeq(s, k + 1, Len(s))
Take(s, k) == SubSeq(s, 1, IF k < Len(s) THEN k ELSE Len(s))
StartsWith(s, p) == Len(s) >= Len(p) /\ SubSeq(s, 1, Len(p)) = p

RECURSIVE TrimStart(_)
TrimStart(s) == IF s # <<>> /\ Head(s) = " " THEN TrimStart(Tail(s)) ELSE s

\* the length of the longest prefix of s made of digits
RECURSIVE DigitRun(_)
DigitRun(s) == IF s # <<>> /\ IsDigit(Head(s)) THEN 1 + DigitRun(Tail(s)) ELSE 0

\* the value of a digit string, and 10^k
RECURSIVE DigitsVal(_, _)
DigitsVal(s, acc) == IF s = <<>> THEN acc ELSE DigitsVal(Tail(s), 10 * acc + DigitVal(Head(s)))
RECURSIVE Pow10(_)
Pow10(k) == IF k = 0 THEN 1 ELSE 10 * Pow10(k - 1)

InfinityText == <<"I", "n", "f", "i", "n", "i", "t", "y">>

parseFloat(t) ==
    LET s0 == TrimStart(t)
        neg == s0 # <<>> /\ Head(s0) = "-"
        signed == s0 # <<>> /\ Head(s0) \in {"-", "+"}
        s1 == IF signed THEN Tail(s0) ELSE s0
        sg == IF neg THEN -1 ELSE 1
        ni == DigitRun(s1)
        r1 == Drop(s1, ni)
        dot == r1 # <<>> /\ Head(r1) = "."
        nf == IF dot THEN DigitRun(Tail(r1)) ELSE 0
        ip == Take(s1, ni)
        fp == IF dot THEN Take(Tail(r1), nf) ELSE <<>>
    IN  IF StartsWith(s1, InfinityText) THEN Inf(sg)
        ELSE IF ni + nf = 0 THEN NaN
        ELSE Rat(sg * (DigitsVal(ip, 0) * Pow10(nf) + DigitsVal(fp, 0)), Pow10(nf))

(***************************************************************************)
(* Peptide calculator: the derived numbers (useMemo over calc)             *)
(***************************************************************************)
Hundred == Num(100)

\* pep.reduce((s, p) => s + f(p), 0)
RECURSIVE SumFrom(_, _)
SumFrom(acc, xs) == IF xs = <<>> THEN acc ELSE SumFrom(NumAdd(acc, Head(xs)), Tail(xs))

\* `Peptide ${p.id.toUpperCase()}`
PeptideLabel(id) == <<"P", "e", "p", "t", "i", "d", "e", " ", "P", Digits[id + 1]>>

\* one entry of derived.perPeptide
PerPeptideEntry(p, vialMgNum, totalVialMg, totalDoseMg) ==
    LET share == IF Gt0(totalVialMg) THEN NumDiv(vialMgNum, totalVialMg) ELSE Zero
    IN  [id |-> p.id,
         name |-> IF p.name # <<>> THEN p.name ELSE PeptideLabel(p.id),
         share |-> share,
         mgInDose |-> NumMul(totalDoseMg, share)]

\* a dose resolution that looks at the IU field first
TotalDoseMg_iuFirst(doseMg, doseIU, mgPerMl) ==
    IF Gt0(doseIU) THEN NumMul(NumDiv(doseIU, Hundred), mgPerMl)
    ELSE IF Gt0(doseMg) THEN doseMg
    ELSE Zero

\* const totalDoseMg = doseMg > 0 ? doseMg : doseIU > 0 ? (doseIU / 100) * mgPerMl : 0
TotalDoseMg(doseMg, doseIU, mgPerMl) ==
    IF Gt0(doseMg) THEN doseMg
    ELSE IF Gt0(doseIU) THEN NumMul(NumDiv(doseIU, Hundred), mgPerMl)
    ELSE Zero

\* a concentration with the quotient upside down (mL per mg)
MgPerMl_inverted(totalVialMg, totalReconMl) ==
    IF Gt0(totalReconMl) THEN NumDiv(totalReconMl, totalVialMg) ELSE Zero

\* const mgPerMl = totalReconMl > 0 ? totalVialMg / totalReconMl : 0
MgPerMl(totalVialMg, totalReconMl) ==
    IF Gt0(totalReconMl) THEN NumDiv(totalVialMg, totalReconMl) ELSE Zero

\* const iuPerMg = mgPerIU > 0 ? 1 / mgPerIU : 0
IuPerMg(mgPerIU) == IF Gt0(mgPerIU) THEN NumDiv(Num(1), mgPerIU) ELSE Zero

\* const drawMlFromMg = mgPerMl > 0 ? totalDoseMg / mgPerMl : 0
DrawMlFromMg(totalDoseMg, mgPerMl) ==
    IF Gt0(mgPerMl) THEN NumDiv(totalDoseMg, mgPerMl) ELSE Zero

Derived(c) ==
    LET n == Len(c.peptides)
        vialMgNum == [i \in 1..n |-> OrZero(parseFloat(c.peptides[i].vialMg))]
        reconMlNum == [i \in 1..n |-> OrZero(parseFloat(c.peptides[i].reconMl))]
        totalVialMg == SumFrom(Zero, vialMgNum)
        totalReconMl == SumFrom(Zero, reconMlNum)
        mgPerMl == MgPerMl(totalVialMg, totalReconMl)
        mgPerIU == NumDiv(mgPerMl, Hundred)
        iuPerMg == IuPerMg(mgPerIU)
        doseMg == OrZero(parseFloat(c.dose.mg))
        doseIU == OrZero(parseFloat(c.dose.iu))
        totalDoseMg == TotalDoseMg(doseMg, doseIU, mgPerMl)
        drawMlFromMg == DrawMlFromMg(totalDoseMg, mgPerMl)
        iuFromMg == NumMul(drawMlFromMg, Hundred)
    IN  [totalVialMg |-> totalVialMg,
         totalReconMl |-> totalReconMl,
         mgPerMl |-> mgPerMl,
         mgPerIU |-> mgPerIU,
         iuPerMg |-> iuPerMg,
         totalDoseMg |-> totalDoseMg,
         drawMlFromMg |-> drawMlFromMg,
         iuFromMg |-> iuFromMg,
         perPeptide |-> [i \in 1..n |->
             PerPeptideEntry(c.peptides[i], vialMgNum[i], totalVialMg, totalDoseMg)]]

\* `derived` before the first render
NotComputed == <<>>
\* `derived` as a render leaves it
Render(c) == <<Derived(c)>>

(***************************************************************************)
(* Peptide calculator: state and state updaters                            *)
(***************************************************************************)
Empty == <<>>

\* loadCalc's fallback
DefaultCalc ==
    [peptides |-> << [id |-> 1,
                      name |-> <<"T", "e", "s", "a">>,
                      vialMg |-> <<"5">>,
                      reconMl |-> <<"2", ".", "0">>] >>,
     dose |-> [mg |-> Empty, iu |-> Empty]]

MaxPeptides == 4
MaxPresets == 25

\* xs.filter(x => x.id !== id)
RECURSIVE WithoutId(_, _)
WithoutId(xs, id) ==
    IF xs = <<>> THEN <<>>
    ELSE IF Head(xs).id # id THEN <<Head(xs)>> \o WithoutId(Tail(xs), id)
    ELSE WithoutId(Tail(xs), id)

\* { ...p, [field]: value }
WithField(p, field, value) ==
    CASE field = "name" -> [p EXCEPT !.name = value]
      [] field = "vialMg" -> [p EXCEPT !.vialMg = value]
      [] field = "reconMl" -> [p EXCEPT !.reconMl = value]

\* setCalc updater of setPeptideField
setPeptideField(c, id, field, value) ==
    [c EXCEPT !.peptides =
        [i \in 1..Len(c.peptides) |->
            IF c.peptides[i].id = id THEN WithField(c.peptides[i], field, value)
            ELSE c.peptides[i]]]

\* the id addPeptide gives the new component: `p${c.peptides.length+1}`
NewPeptideId(c) == Len(c.peptides) + 1

\* setCalc updater of addPeptide
addPeptide(c) ==
    IF Len(c.peptides) >= MaxPeptides THEN c
    ELSE [c EXCEPT !.peptides =
            Append(c.peptides,
                   [id |-> NewPeptideId(c), name |-> Empty, vialMg |-> Empty, reconMl |-> Empty])]

\* setCalc updater of removePeptide
removePeptide(c, id) ==
    [c EXCEPT !.peptides = WithoutId(c.peptides, id)]

\* setCalc updater of clearDose
clearDose(c) == [c EXCEPT !.dose = [mg |-> Empty, iu |-> Empty]]

\* a mass edit that leaves the unit field as it is: { ...c.dose, mg: v }
doseMgChange_keepIu(c, v) == [c EXCEPT !.dose.mg = v]

\* onChange of the "Dose in mg" input
doseMgChange(c, v) == [c EXCEPT !.dose = [mg |-> v, iu |-> Empty]]

\* onChange of the "Dose in IU" input
doseIuChange(c, v) == [c EXCEPT !.dose = [mg |-> Empty, iu |-> v]]

\* a save that puts the new preset last: [...prev, preset].slice(0,25)
savePresetUpdate_append(prev, preset) == Take(prev \o <<preset>>, MaxPresets)

\* setPresets updater of savePreset: [preset, ...prev].slice(0,25)
savePresetUpdate(prev, preset) == Take(<<preset>> \o prev, MaxPresets)

\* setPresets updater of deletePreset
deletePresetUpdate(prev, id) == WithoutId(prev, id)

\* xs.find(x => x.id === id), as the index of the first match or 0
FindById(xs, id) ==
    IF \E i \in 1..Len(xs) : xs[i].id = id
    THEN CHOOSE i \in 1..Len(xs) : xs[i].id = id /\ \A j \in 1..(i - 1) : xs[j].id # id
    ELSE 0

\* presets.find(p => p.name === name), as an index or 0
FindByName(xs, name) ==
    IF \E i \in 1..Len(xs) : xs[i].name = name
    THEN CHOOSE i \in 1..Len(xs) : xs[i].name = name /\ \A j \in 1..(i - 1) : xs[j].name # name
    ELSE 0

\* the calc loadPreset(id) leaves
loadPreset(c, ps, id) ==
    LET i == FindById(ps, id) IN IF i = 0 THEN c ELSE ps[i].data

(***************************************************************************)
(* Dates.  A Date is a number of minutes since the epoch, or InvalidDate.  *)
(* Its local fields are those of the instant shifted by the zone offset.   *)
(* Date.UTC(y, m, d) is counted in days: it is a whole number of days, so  *)
(* Math.floor(difference / 86400000) is the difference of the day counts.  *)
(***************************************************************************)
MinutesPerDay == 1440
InvalidDate == -1

FloorDiv(a, b) == IF a >= 0 THEN a \div b ELSE -((b - 1 - a) \div b)

\* a % b of JavaScript (the sign of the result is the sign of a), b > 0
JsRem(a, b) == IF a >= 0 THEN a % b ELSE -((-a) % b)

\* days since the epoch of the civil date y-m-d (m in 1..12)
DaysFromCivil(y, m, d) ==
    LET yy == IF m <= 2 THEN y - 1 ELSE y
        era == yy \div 400
        yoe == yy - era * 400
        mp == IF m > 2 THEN m - 3 ELSE m + 9
        doy == (153 * mp + 2) \div 5 + d - 1
        doe == yoe * 365 + yoe \div 4 - yoe \div 100 + doy
    IN  era * 146097 + doe - 719468

\* the civil date [y, m, d] of a day count
CivilFromDays(days) ==
    LET z == days + 719468
        era == z \div 146097
        doe == z - era * 146097
        yoe == (doe - doe \div 1460 + doe \div 36524 - doe \div 146096) \div 365
        doy == doe - (365 * yoe + yoe \div 4 - yoe \div 100)
        mp == (5 * doy + 2) \div 153
        d == doy - (153 * mp + 2) \div 5 + 1
        m == IF mp < 10 THEN mp + 3 ELSE mp - 9
        y == yoe + era * 400
    IN  [y |-> IF m <= 2 THEN y + 1 ELSE y, m |-> m, d |-> d]

IsLeap(y) == (y % 4 = 0 /\ y % 100 # 0) \/ y % 400 = 0
DaysInMonth(y, m) ==
    IF m = 2 THEN (IF IsLeap(y) THEN 29 ELSE 28)
    ELSE IF m \in {4, 6, 9, 11} THEN 30 ELSE 31

\* the day count of the local calendar date of Date t in zone z
LocalDay(t, z) == FloorDiv(t + z, MinutesPerDay)
\* t.getFullYear(), t.getMonth() (0-based), t.getDate(), t.getDay()
getFullYear(t, z) == CivilFromDays(LocalDay(t, z)).y
getMonth(t, z) == CivilFromDays(LocalDay(t, z)).m - 1
getDate(t, z) == CivilFromDays(LocalDay(t, z)).d
getDay(t, z) == (LocalDay(t, z) + 4) % 7
\* Date.UTC(y, month0, d) / 86400000
DateUTC(y, month0, d) == DaysFromCivil(y, month0 + 1, d)

\* a pattern or start that the alert does not have (undefined)
Missing == <<"undefined">>

TwoDigits(n) == <<Digits[(n \div 10) + 1], Digits[(n % 10) + 1]>>
FourDigits(n) == TwoDigits(n \div 100) \o TwoDigits(n % 100)

\* t.toISOString().slice(0, 10): the UTC calendar date, as YYYY-MM-DD
IsoDate(t) ==
    LET c == CivilFromDays(FloorDiv(t, MinutesPerDay))
    IN  FourDigits(c.y) \o <<"-">> \o TwoDigits(c.m) \o <<"-">> \o TwoDigits(c.d)

\* const todayKey = () => new Date().toISOString().slice(0, 10)
todayKey(t) == IsoDate(t)

\* new Date(text): YYYY-MM-DD is midnight UTC of that date; other texts of the
\* input alphabet are no date
NewDate(text) ==
    IF /\ Len(text) = 10
       /\ text[5] = "-" /\ text[8] = "-"
       /\ \A i \in {1, 2, 3, 4, 6, 7, 9, 10} : IsDigit(text[i])
    THEN LET y == DigitsVal(SubSeq(text, 1, 4), 0)
             m == DigitsVal(SubSeq(text, 6, 7), 0)
             d == DigitsVal(SubSeq(text, 9, 10), 0)
         IN  IF m \in 1..12 /\ d >= 1 /\ d <= DaysInMonth(y, m)
             THEN DaysFromCivil(y, m, d) * MinutesPerDay
             ELSE InvalidDate
    ELSE InvalidDate

(***************************************************************************)
(* Alerts: which days a pattern names, and whether an alert is due         *)
(***************************************************************************)
Letters ==
    {"A", "B", "C", "D", "E", "F", "G", "H", "I", "J", "K", "L", "M", "N", "O", "P", "Q",
     "R", "S", "T", "U", "V", "W", "X", "Y", "Z", "a", "b", "c", "d", "e", "f", "g", "h",
     "i", "j", "k", "l", "m", "n", "o", "p", "q", "r", "s", "t", "u", "v", "w", "x", "y", "z"}
\* \w
IsWordChar(c) == c \in Letters \/ IsDigit(c) \/ c = "_"

\* a split on spaces only: p.split(/ +/).filter(Boolean)
RECURSIVE SplitWords_onSpaces(_, _, _)
SplitWords_onSpaces(s, cur, out) ==
    IF s = <<>> THEN (IF cur = <<>> THEN out ELSE Append(out, cur))
    ELSE IF Head(s) # " " THEN SplitWords_onSpaces(Tail(s), Append(cur, Head(s)), out)
    ELSE SplitWords_onSpaces(Tail(s), <<>>, IF cur = <<>> THEN out ELSE Append(out, cur))

\* p.split(/[^\w]+/).filter(Boolean)
RECURSIVE SplitWords(_, _, _)
SplitWords(s, cur, out) ==
    IF s = <<>> THEN (IF cur = <<>> THEN out ELSE Append(out, cur))
    ELSE IF IsWordChar(Head(s)) THEN SplitWords(Tail(s), Append(cur, Head(s)), out)
    ELSE SplitWords(Tail(s), <<>>, IF cur = <<>> THEN out ELSE Append(out, cur))

\* map[t] of {Su:0,Sun:0,M:1,Mon:1,Tu:2,Tue:2,W:3,Wed:3,Th:4,Thu:4,F:5,Fri:5,Sa:6,Sat:6};
\* -1 stands for what is not a number >= 0 (undefined)
DayOfToken(t) ==
    CASE t \in {<<"S", "u">>, <<"S", "u", "n">>} -> 0
      [] t \in {<<"M">>, <<"M", "o", "n">>} -> 1
      [] t \in {<<"T", "u">>, <<"T", "u", "e">>} -> 2
      [] t \in {<<"W">>, <<"W", "e", "d">>} -> 3
      [] t \in {<<"T", "h">>, <<"T", "h", "u">>} -> 4
      [] t \in {<<"F">>, <<"F", "r", "i">>} -> 5
      [] t \in {<<"S", "a">>, <<"S", "a", "t">>} -> 6
      [] OTHER -> -1

\* tokens.map(t => map[t]).filter(n => n >= 0)
RECURSIVE DaysOfTokens(_)
DaysOfTokens(ts) ==
    IF ts = <<>> THEN <<>>
    ELSE IF DayOfToken(Head(ts)) >= 0
         THEN <<DayOfToken(Head(ts))>> \o DaysOfTokens(Tail(ts))
         ELSE DaysOfTokens(Tail(ts))

AllDays == <<0, 1, 2, 3, 4, 5, 6>>
PDaily == <<"D", "a", "i", "l", "y">>
PMTWThF == <<"M", "T", "W", "T", "h", "F">>
PMWF == <<"M", "W", "F">>
PTuThSa == <<"T", "u", "T", "h", "S", "a">>
PSat == <<"S", "a", "t">>
PSa == <<"S", "a">>
PSun == <<"S", "u", "n">>
PEOD == <<"E", "O", "D">>

\* what stands for the list when p.split(...) throws a TypeError (p has no split)
TypeErrorDays == <<-1>>
\* p is a string
IsText(p) == p # Missing

\* a patternToDays without the `!p` test
patternToDays_noGuard(p) ==
    IF p = PDaily THEN AllDays
    ELSE IF p = PMTWThF THEN <<1, 2, 3, 4, 5>>
    ELSE IF p = PMWF THEN <<1, 3, 5>>
    ELSE IF p = PTuThSa THEN <<2, 4, 6>>
    ELSE IF p = PSat THEN <<6>>
    ELSE IF p = PSun THEN <<0>>
    ELSE IF ~IsText(p) THEN TypeErrorDays
    ELSE DaysOfTokens(SplitWords(p, <<>>, <<>>))

\* a patternToDays that leaves every named code but Daily to the tokens
patternToDays_tokensOnly(p) ==
    IF p = Missing \/ p = Empty \/ p = PDaily THEN AllDays
    ELSE DaysOfTokens(SplitWords(p, <<>>, <<>>))

\* patternToDays of src/src/App.jsx
patternToDays(p) ==
    IF p = Missing \/ p = Empty \/ p = PDaily THEN AllDays
    ELSE IF p = PMTWThF THEN <<1, 2, 3, 4, 5>>
    ELSE IF p = PMWF THEN <<1, 3, 5>>
    ELSE IF p = PTuThSa THEN <<2, 4, 6>>
    ELSE IF p = PSat THEN <<6>>
    ELSE IF p = PSun THEN <<0>>
    ELSE IF ~IsText(p) THEN TypeErrorDays
    ELSE DaysOfTokens(SplitWords(p, <<>>, <<>>))

\* the same without the "every day" answer when no token is recognised
patternToDays1_noFallback(p) ==
    IF p = Missing \/ p = Empty \/ p = PDaily THEN AllDays
    ELSE IF p = PMTWThF THEN <<1, 2, 3, 4, 5>>
    ELSE IF p = PMWF THEN <<1, 3, 5>>
    ELSE IF p = PTuThSa THEN <<2, 4, 6>>
    ELSE IF p = PSa THEN <<6>>
    ELSE IF p = PSun THEN <<0>>
    ELSE IF ~IsText(p) THEN TypeErrorDays
    ELSE DaysOfTokens(SplitWords(p, <<>>, <<>>))

\* patternToDays of src/unnamed/part_001
patternToDays1(p) ==
    IF p = Missing \/ p = Empty \/ p = PDaily THEN AllDays
    ELSE IF p = PMTWThF THEN <<1, 2, 3, 4, 5>>
    ELSE IF p = PMWF THEN <<1, 3, 5>>
    ELSE IF p = PTuThSa THEN <<2, 4, 6>>
    ELSE IF p = PSa THEN <<6>>
    ELSE IF p = PSun THEN <<0>>
    ELSE IF ~IsText(p) THEN TypeErrorDays
    ELSE LET days == DaysOfTokens(SplitWords(p, <<>>, <<>>))
         IN  IF Len(days) > 0 THEN days ELSE AllDays

\* the Date isEODDue counts from: new Date(startIso ?? todayKey())
StartDate(startIso, t) == NewDate(IF startIso = Missing THEN todayKey(t) ELSE startIso)

\* isEODDue(startIso, date), in a browser whose zone is z; t is the time of the call
isEODDue(startIso, date, z, t) ==
    LET s == StartDate(startIso, t)
        diff == DateUTC(getFullYear(date, z), getMonth(date, z), getDate(date, z))
                - DateUTC(getFullYear(s, z), getMonth(s, z), getDate(s, z))
    IN  IF s = InvalidDate THEN FALSE ELSE JsRem(diff, 2) = 0

\* days.includes(dow)
Includes(days, x) == \E i \in 1..Len(days) : days[i] = x

\* isAlertDueToday(a, d) of src/src/App.jsx
isAlertDueToday(a, d, z) ==
    IF a.pattern = PEOD THEN isEODDue(a.start, d, z, d)
    ELSE Includes(patternToDays(a.pattern), getDay(d, z))

\* isAlertDueToday(alert, date) of src/unnamed/part_001
isAlertDueToday1(a, d, z) ==
    IF a.pattern = PEOD THEN isEODDue(a.start, d, z, d)
    ELSE Includes(patternToDays1(a.pattern), getDay(d, z))

\* isAlertDueToday(a, d) ends in a TypeError instead of a result
isAlertDueTodayThrows(a) == a.pattern # PEOD /\ patternToDays(a.pattern) = TypeErrorDays
isAlertDueToday1Throws(a) == a.pattern # PEOD /\ patternToDays1(a.pattern) = TypeErrorDays

\* the due check not made yet
NotChecked == <<>>

(***************************************************************************)
(* Alerts with a free-text plan (the App of src/src/App.jsx from line 1039 *)
(* on): normalizePlan, extractDaysFromPlan, isAlertDueToday(plan, dow).    *)
(* The source spells the dashes it replaces as the three characters each   *)
(* is mis-decoded to; here a dash is one character.                        *)
(***************************************************************************)
DOW_SHORT == <<"Sun", "Mon", "Tue", "Wed", "Thu", "Fri", "Sat">>

UpperCase == <<"A", "B", "C", "D", "E", "F", "G", "H", "I", "J", "K", "L", "M",
               "N", "O", "P", "Q", "R", "S", "T", "U", "V", "W", "X", "Y", "Z">>
LowerCase == <<"a", "b", "c", "d", "e", "f", "g", "h", "i", "j", "k", "l", "m",
               "n", "o", "p", "q", "r", "s", "t", "u", "v", "w", "x", "y", "z">>

\* c.toLowerCase()
LowerChar(c) ==
    IF \E i \in 1..26 : UpperCase[i] = c
    THEN LowerCase[CHOOSE i \in 1..26 : UpperCase[i] = c]
    ELSE c

\* t.toLowerCase()
toLowerCase(t) == [i \in 1..Len(t) |-> LowerChar(t[i])]

\* \b before position i and after position j of t
BoundaryBefore(t, i) == i = 1 \/ ~IsWordChar(t[i - 1])
BoundaryAfter(t, j) == j = Len(t) \/ ~IsWordChar(t[j + 1])

\* /\bw\b/i matches t at position i (w in lower case)
WordAt(t, i, w) ==
    /\ i + Len(w) - 1 <= Len(t)
    /\ toLowerCase(SubSeq(t, i, i + Len(w) - 1)) = w
    /\ BoundaryBefore(t, i)
    /\ BoundaryAfter(t, i + Len(w) - 1)

\* the test with the leading word boundary only
TestWord_noEnd(t, w) ==
    \E i \in 1..Len(t) :
        /\ i + Len(w) - 1 <= Len(t)
        /\ toLowerCase(SubSeq(t, i, i + Len(w) - 1)) = w
        /\ BoundaryBefore(t, i)

\* new RegExp(`\\b${w}\\b`, "i").test(t)
TestWord(t, w) == \E i \in 1..Len(t) : WordAt(t, i, w)

\* the same replacement without the i flag: only the lower-case letter
RECURSIVE ReplaceLetter_caseSensitive(_, _, _, _)
ReplaceLetter_caseSensitive(t, i, c, word) ==
    IF i > Len(t) THEN <<>>
    ELSE IF /\ t[i] = c
            /\ i = 1 \/ t[i - 1] \notin Letters
            /\ i < Len(t)
            /\ t[i + 1] \notin Letters
         THEN word \o ReplaceLetter_caseSensitive(t, i + 1, c, word)
         ELSE <<t[i]>> \o ReplaceLetter_caseSensitive(t, i + 1, c, word)

\* t.replace(/(^|[^a-z])c(?=[^a-z])/gi, "$1" + word), from position i on: the
\* letter c (either case) with no letter before it and a non-letter after it
RECURSIVE ReplaceLetter(_, _, _, _)
ReplaceLetter(t, i, c, word) ==
    IF i > Len(t) THEN <<>>
    ELSE IF /\ LowerChar(t[i]) = c
            /\ i = 1 \/ t[i - 1] \notin Letters
            /\ i < Len(t)
            /\ t[i + 1] \notin Letters
         THEN word \o ReplaceLetter(t, i + 1, c, word)
         ELSE <<t[i]>> \o ReplaceLetter(t, i + 1, c, word)

\* t.replace(/\btu\b/gi, "Tue"), from position i on
RECURSIVE ReplaceTu(_, _)
ReplaceTu(t, i) ==
    IF i > Len(t) THEN <<>>
    ELSE IF WordAt(t, i, <<"t", "u">>) THEN <<"T", "u", "e">> \o ReplaceTu(t, i + 2)
    ELSE <<t[i]>> \o ReplaceTu(t, i + 1)

\* t.replace(/\bth(u|)\b/gi, "Thu"), from position i on
RECURSIVE ReplaceTh(_, _)
ReplaceTh(t, i) ==
    IF i > Len(t) THEN <<>>
    ELSE IF WordAt(t, i, <<"t", "h", "u">>) THEN <<"T", "h", "u">> \o ReplaceTh(t, i + 3)
    ELSE IF WordAt(t, i, <<"t", "h">>) THEN <<"T", "h", "u">> \o ReplaceTh(t, i + 2)
    ELSE <<t[i]>> \o ReplaceTh(t, i + 1)

\* the dash characters U+2013 and U+2014, each a single character of a text
EnDash == "EN DASH"
EmDash == "EM DASH"

\* t.replace(/[\/\\|]/g, " ").replace(/<en dash>|<em dash>/g, "-")
ReplaceSeparators(t) ==
    [i \in 1..Len(t) |->
        IF t[i] \in {"/", "\\", "|"} THEN " "
        ELSE IF t[i] \in {EnDash, EmDash} THEN "-"
        ELSE t[i]]

\* normalizePlan(plan = "")
normalizePlan(plan) ==
    LET t0 == <<" ">> \o (IF plan = Missing THEN Empty ELSE plan) \o <<" ">>
        t1 == ReplaceLetter(t0, 1, "m", <<"M", "o", "n">>)
        t2 == ReplaceLetter(t1, 1, "w", <<"W", "e", "d">>)
        t3 == ReplaceLetter(t2, 1, "f", <<"F", "r", "i">>)
        t4 == ReplaceTh(ReplaceTu(t3, 1), 1)
    IN  ReplaceSeparators(t4)

\* the spellings extractDaysFromPlan looks for, per day of DOW_SHORT
PlanSpellings ==
    << {<<"s", "u", "n">>, <<"s", "u">>}, {<<"m", "o", "n">>}, {<<"t", "u", "e">>},
       {<<"w", "e", "d">>}, {<<"t", "h", "u">>, <<"t", "h", "u", "r">>},
       {<<"f", "r", "i">>}, {<<"s", "a", "t">>, <<"s", "a">>} >>

\* extractDaysFromPlan with spellings matched anywhere, also inside words
extractDaysFromPlan_anywhere(plan) ==
    LET t == toLowerCase(normalizePlan(plan))
        hit(d) == \E w \in PlanSpellings[d] :
                    \E i \in 1..Len(t) :
                        i + Len(w) - 1 <= Len(t) /\ SubSeq(t, i, i + Len(w) - 1) = w
    IN  SelectSeq(DOW_SHORT, LAMBDA name :
                    hit(CHOOSE d \in 1..7 : DOW_SHORT[d] = name))

\* extractDaysFromPlan(plan = ""): the days hit, in the order of the addIf calls
extractDaysFromPlan(plan) ==
    LET t == toLowerCase(normalizePlan(plan))
        hit(d) == \E w \in PlanSpellings[d] : TestWord(t, w)
    IN  SelectSeq(DOW_SHORT, LAMBDA name :
                    hit(CHOOSE d \in 1..7 : DOW_SHORT[d] = name))

\* isAlertDueToday(plan, dow): days.length > 0 && days.includes(dow)
isAlertDueTodayPlan(plan, dow) ==
    LET days == extractDaysFromPlan(plan)
    IN  Len(days) > 0 /\ Includes(days, dow)

(***************************************************************************)
(* Persistence.  A JavaScript value is a record tagged with its type; an   *)
(* object lists its own properties in insertion order.  What localStorage  *)
(* holds under a key is a text: JsonText(doc) is a text JSON.parse reads   *)
(* as the value doc, OtherText(s) is a text s that is not JSON, and NoItem *)
(* stands for the null getItem returns when there is nothing.              *)
(***************************************************************************)
Undefined == [t |-> "undefined"]
Null == [t |-> "null"]
Str(s) == [t |-> "string", s |-> s]
NumberValue(x) == [t |-> "number", x |-> x]
Arr(items) == [t |-> "array", items |-> items]
Field(key, value) == [key |-> key, value |-> value]
Obj(fields) == [t |-> "object", fields |-> fields]
Bool(b) == [t |-> "boolean", b |-> b]

\* the value JSON.stringify(v) denotes, for v other than undefined: NaN and
\* the infinities are written as null, so is an undefined array item, and a
\* property whose value is undefined is left out
RECURSIVE JsonOf(_), JsonFields(_)
JsonOf(v) ==
    CASE v.t = "number" -> IF IsFinite(v.x) THEN v ELSE Null
      [] v.t = "array" ->
            Arr([i \in 1..Len(v.items) |->
                    IF v.items[i] = Undefined THEN Null ELSE JsonOf(v.items[i])])
      [] v.t = "object" -> Obj(JsonFields(v.fields))
      [] OTHER -> v

JsonFields(fs) ==
    IF fs = <<>> THEN <<>>
    ELSE IF Head(fs).value = Undefined THEN JsonFields(Tail(fs))
    ELSE <<Field(Head(fs).key, JsonOf(Head(fs).value))>> \o JsonFields(Tail(fs))

NoItem == [p |-> "none"]
JsonText(doc) == [p |-> "json", doc |-> doc]
OtherText(s) == [p |-> "other", s |-> s]

\* JSON.stringify(v): a text, or undefined when v is undefined
JSONstringify(v) == IF v = Undefined THEN Undefined ELSE JsonText(JsonOf(v))

\* localStorage.setItem(k, x) stores String(x)
setItem(st, k, x) ==
    [st EXCEPT ![k] = IF x = Undefined
                      THEN OtherText(<<"u", "n", "d", "e", "f", "i", "n", "e", "d">>)
                      ELSE x]

\* JSON.parse(item): the value read, or a SyntaxError thrown; the null of a
\* missing item is parsed as the text "null"
Threw == [threw |-> TRUE]
Returned(v) == [threw |-> FALSE, value |-> v]
JSONparse(item) ==
    CASE item = NoItem -> Returned(Null)
      [] item.p = "json" -> Returned(item.doc)
      [] OTHER -> Threw

\* a save that writes every value under the same key
save_oneKey(st, k, v) == setItem(st, "mpr-calc", JSONstringify(v))

\* const save = (k, v) => localStorage.setItem(k, JSON.stringify(v))
save(st, k, v) == setItem(st, k, JSONstringify(v))

\* load without the `?? fallback`
load_noNullish(st, k, fallback) ==
    LET r == JSONparse(st[k])
    IN  IF r.threw THEN Returned(fallback) ELSE Returned(r.value)

\* const load = (k, fallback) =>
\*   { try { return JSON.parse(localStorage.getItem(k)) ?? fallback; } catch { return fallback; } }
load(st, k, fallback) ==
    LET r == JSONparse(st[k])
    IN  IF r.threw THEN Returned(fallback)
        ELSE IF r.value \in {Null, Undefined} THEN Returned(fallback)
        ELSE Returned(r.value)

\* the keys of the dashboard
KEY_HISTORY == "mpr-history"
KEY_KPIS == "mpr-kpis"
KEY_STACK == "mpr-stack"
KEY_NOTES == "mpr-notes"
\* KEY_DONE_PREFIX + dateKey, for the dates of the model
KEY_DONE(dateKey) ==
    CASE dateKey = todayKey(0) -> "mpr-done-1970-01-01"
      [] dateKey = todayKey(MinutesPerDay) -> "mpr-done-1970-01-02"
      [] dateKey = todayKey(2 * MinutesPerDay) -> "mpr-done-1970-01-03"
      [] dateKey = todayKey(3 * MinutesPerDay) -> "mpr-done-1970-01-04"
      [] OTHER -> "mpr-done-"
DoneKeys == {KEY_DONE(todayKey(d * MinutesPerDay)) : d \in 0..4}

\* the keys of the store
KEY_ALERTS == "mpr-alerts"
KEY_CALC == "mpr-calc"
KEY_CALC_PRESETS == "mpr-calc-presets"
StoreKeys ==
    {KEY_ALERTS, KEY_CALC, KEY_CALC_PRESETS, KEY_HISTORY, KEY_KPIS, KEY_STACK, KEY_NOTES}
        \cup DoneKeys

EmptyStore == [k \in StoreKeys |-> NoItem]

\* the model's values as JavaScript values
RECURSIVE Decimal(_)
Decimal(n) ==
    IF n < 0 THEN <<"-">> \o Decimal(0 - n)
    ELSE IF n < 10 THEN <<Digits[n + 1]>>
    ELSE Decimal(n \div 10) \o <<Digits[(n % 10) + 1]>>

JsPeptide(p) ==
    Obj(<<Field("id", Str(<<"p">> \o Decimal(p.id))), Field("name", Str(p.name)),
          Field("vialMg", Str(p.vialMg)), Field("reconMl", Str(p.reconMl))>>)

JsPeptides(ps) == Arr([i \in 1..Len(ps) |-> JsPeptide(ps[i])])

JsDose(d) == Obj(<<Field("mg", Str(d.mg)), Field("iu", Str(d.iu))>>)

JsCalc(c) == Obj(<<Field("peptides", JsPeptides(c.peptides)), Field("dose", JsDose(c.dose))>>)

JsPreset(p) ==
    Obj(<<Field("id", Str(Decimal(p.id))), Field("name", Str(p.name)),
          Field("data", JsCalc(p.data)), Field("savedAt", Str(Decimal(p.savedAt)))>>)

JsPresets(ps) == Arr([i \in 1..Len(ps) |-> JsPreset(ps[i])])

\* an alert with no pattern, no start or no plan has no such property
JsAlert(a) ==
    Obj((IF a.pattern = Missing THEN <<>> ELSE <<Field("pattern", Str(a.pattern))>>)
        \o (IF a.start = Missing THEN <<>> ELSE <<Field("start", Str(a.start))>>)
        \o (IF a.plan = Missing THEN <<>> ELSE <<Field("plan", Str(a.plan))>>))

JsAlerts(as) == Arr([i \in 1..Len(as) |-> JsAlert(as[i])])

\* the store once the effects of the first render have run
MountedStore(as, c, ps) ==
    save(save(save(EmptyStore, KEY_ALERTS, JsAlerts(as)), KEY_CALC, JsCalc(c)),
         KEY_CALC_PRESETS, JsPresets(ps))

NotLoaded == <<>>
NotSaved == <<>>

\* the dashboard's values as JavaScript values, and back: v.key of an object
Prop(v, key) ==
    IF \E i \in 1..Len(v.fields) : v.fields[i].key = key
    THEN v.fields[CHOOSE i \in 1..Len(v.fields) : v.fields[i].key = key].value
    ELSE Undefined
TextOf(v) == IF v = Undefined THEN Missing ELSE v.s
JsText(t) == IF t = Missing THEN Undefined ELSE Str(t)

JsKpis(k) ==
    Obj(<<Field("weight", Str(k.weight)), Field("sleep", Str(k.sleep)),
          Field("waist", Str(k.waist)), Field("energy", Str(k.energy))>>)
KpisOfJs(v) ==
    [weight |-> Prop(v, "weight").s, sleep |-> Prop(v, "sleep").s,
     waist |-> Prop(v, "waist").s, energy |-> Prop(v, "energy").s]

\* a checklist {id: {done, ts}}: the ids in the order of the default rows (the
\* time stamp ts is not modelled)
JsChecklist(cl) ==
    LET ids == SelectSeq(<<"motsc", "survo", "testc">>, LAMBDA id : id \in DOMAIN cl)
    IN  Obj([i \in 1..Len(ids) |->
                Field(ids[i], Obj(<<Field("done", Bool(cl[ids[i]]))>>))])
\* a history record holds a checklist when saveToday wrote it
JsHistory(h) ==
    Arr([i \in 1..Len(h) |->
            Obj(<<Field("date", Str(h[i].date)), Field("kpis", JsKpis(h[i].kpis))>>
                \o (IF "checklist" \in DOMAIN h[i]
                    THEN <<Field("checklist", JsChecklist(h[i].checklist))>> ELSE <<>>))])
HistoryOfJs(v) ==
    [i \in 1..Len(v.items) |->
        [date |-> Prop(v.items[i], "date").s, kpis |-> KpisOfJs(Prop(v.items[i], "kpis"))]]

JsAlertItems(as) ==
    Arr([i \in 1..Len(as) |->
            Obj(<<Field("id", Str(<<as[i].id>>)), Field("name", Str(as[i].name)),
                  Field("pattern", JsText(as[i].pattern)), Field("start", JsText(as[i].start)),
                  Field("plan", JsText(as[i].plan))>>)])
AlertItemsOfJs(v) ==
    [i \in 1..Len(v.items) |->
        [id |-> Prop(v.items[i], "id").s[1], name |-> Prop(v.items[i], "name").s,
         pattern |-> TextOf(Prop(v.items[i], "pattern")),
         start |-> TextOf(Prop(v.items[i], "start")),
         plan |-> TextOf(Prop(v.items[i], "plan"))]]

JsIds(ids) == Arr([i \in 1..Len(ids) |-> Str(<<ids[i]>>)])
IdsOfJs(v) == [i \in 1..Len(v.items) |-> v.items[i].s[1]]

JsRows(rs) ==
    Arr([i \in 1..Len(rs) |->
            Obj(<<Field("id", Str(<<rs[i].id>>)), Field("time", Str(<<rs[i].time>>)),
                  Field("days", rs[i].days)>>)])
RowsOfJs(v) ==
    [i \in 1..Len(v.items) |->
        [id |-> Prop(v.items[i], "id").s[1], time |-> Prop(v.items[i], "time").s[1],
         days |-> Prop(v.items[i], "days")]]

CalcOfJs(v) ==
    [peptides |->
        [i \in 1..Len(Prop(v, "peptides").items) |->
            LET p == Prop(v, "peptides").items[i]
            IN  [id |-> DigitsVal(Tail(Prop(p, "id").s), 0), name |-> Prop(p, "name").s,
                 vialMg |-> Prop(p, "vialMg").s, reconMl |-> Prop(p, "reconMl").s]],
     dose |-> [mg |-> Prop(Prop(v, "dose"), "mg").s, iu |-> Prop(Prop(v, "dose"), "iu").s]]
\* (a preset's savedAt is written as a decimal count, possibly negative)
PresetsOfJs(v) ==
    [i \in 1..Len(v.items) |->
        LET p == v.items[i]
            at == Prop(p, "savedAt").s
        IN  [id |-> DigitsVal(Prop(p, "id").s, 0), name |-> Prop(p, "name").s,
             data |-> CalcOfJs(Prop(p, "data")),
             savedAt |-> IF Head(at) = "-" THEN 0 - DigitsVal(Tail(at), 0)
                         ELSE DigitsVal(at, 0)]]

(***************************************************************************)
(* The dashboard: KPIs, history, alerts, schedule rows, notes               *)
(***************************************************************************)
\* {weight:"",sleep:"",waist:"",energy:""}
EmptyKpis == [weight |-> Empty, sleep |-> Empty, waist |-> Empty, energy |-> Empty]

\* DEFAULT_ALERTS at the instant t (name, dose and note are display texts; the
\* name stands for them); an alert of src/unnamed/part_000 has a title, here
\* its name, and a plan, and no pattern and no start
DEFAULT_ALERTS(t) ==
    << [id |-> "shb", name |-> <<"S", "H", "B">>, pattern |-> PMWF,
         start |-> todayKey(t), plan |-> Missing],
       [id |-> "ss", name |-> <<"S", "S">>, pattern |-> PTuThSa,
         start |-> todayKey(t), plan |-> Missing],
       [id |-> "fb", name |-> <<"F", "B">>, pattern |-> PMTWThF,
         start |-> todayKey(t), plan |-> Missing] >>

\* DEFAULT_STACK_ROWS: of the ten rows, a daily one and the two kinds of
\* weekly ones (ids, times and days as in the source; the other columns are
\* display texts); `days` is a JavaScript value: undefined, an array of names,
\* or whatever updateRow has put there
DEFAULT_STACK_ROWS ==
    << [id |-> "motsc", time |-> "Morning (Fast)", days |-> Undefined],
       [id |-> "survo", time |-> "Weekly", days |-> Arr(<<Str(<<"S", "a", "t">>)>>)],
       [id |-> "testc", time |-> "Weekly",
        days |-> Arr(<<Str(<<"M", "o", "n">>), Str(<<"F", "r", "i">>)>>)] >>

\* dowShort, as texts
dowShort == << <<"S", "u", "n">>, <<"M", "o", "n">>, <<"T", "u", "e">>, <<"W", "e", "d">>,
               <<"T", "h", "u">>, <<"F", "r", "i">>, <<"S", "a", "t">> >>
\* todayDowShort() at the instant t in the zone z
todayDowShort(t, z) == dowShort[getDay(t, z) + 1]

\* !v of a value `days` can hold
Falsy(v) == v = Undefined \/ v = Null \/ (v.t = "string" /\ v.s = <<>>)
\* v.includes(x), x a text: an element of the array v, or a part of the string v
includes(v, x) ==
    IF v.t = "array" THEN \E i \in 1..Len(v.items) : v.items[i] = Str(x)
    ELSE \E i \in 1..(Len(v.s) + 1) :
            i + Len(x) - 1 <= Len(v.s) /\ SubSeq(v.s, i, i + Len(x) - 1) = x

\* the filter of the visibleRows memo, run at the instant t
visibleRowsOf(rs, t, z) ==
    SelectSeq(rs, LAMBDA r :
        r.time # "Weekly" \/ Falsy(r.days) \/ includes(r.days, todayDowShort(t, z)))

\* Object.fromEntries(rows.map(r => [r.id, {done:false, ts:null}]))
NothingDone(rs) == [id \in {rs[i].id : i \in 1..Len(rs)} |-> FALSE]

\* the dashboard of a first visit, before the first render's memos
NoDashboard ==
    /\ kpis = EmptyKpis
    /\ history = <<>>
    /\ alerts = DEFAULT_ALERTS(0)
    /\ doneToday = <<>>
    /\ dueAlerts = <<>>
    /\ rows = DEFAULT_STACK_ROWS
    /\ checklist = NothingDone(DEFAULT_STACK_ROWS)
    /\ notesText = Empty
    /\ timers = <<>>
    /\ marked = {}
    /\ visibleRows = <<>>
    /\ schedule = <<>>

\* the three default alerts start on todayKey(); one of them, before any check
NoSchedule ==
    /\ NoDashboard
    /\ today = 0
    /\ tz = 0
    /\ alert = [pattern |-> PMWF, start |-> todayKey(0), plan |-> Missing]
    /\ due = NotChecked

(***************************************************************************)
(* Peptide calculator: the handlers                                        *)
(***************************************************************************)
MaxNow == 2          \* the clock stops here (bounds the number of saves)
NumPresetIds == 2    \* Math.random().toString(36).slice(2,7) draws one of these

PresetIds == 1..NumPresetIds
\* what the user types into a dose field
EditTexts == {Empty, <<"1", "0">>}
\* what the user types into which field of a component row
FieldEdits == {<<"vialMg", <<"1", "0">>>>, <<"reconMl", Empty>>}
\* what the user answers to prompt(): nothing (or Cancel), or a name
PromptNames == {Empty, <<"A">>, <<"B">>}
\* the name given to a new preset
SaveNames == {<<"A">>}

\* presets an earlier session left in the store (oldest: StoredPreset(1))
StoredPreset(i) ==
    [id |-> 100 + i, name |-> <<"S">>, data |-> DefaultCalc, savedAt |-> i - MaxPresets]

StoredPresets == [i \in 1..(MaxPresets - 1) |-> StoredPreset(MaxPresets - i)]

\* the ids loadPreset is called with: ids a save may draw, and the id of the
\* oldest stored preset (each of them in the list in some states, not in others)
LoadIds == PresetIds \cup {StoredPreset(1).id}

\* the handler `op`, the text it was given and the dose it started from
Last(op, text) == [op |-> op, text |-> text, dose |-> calc.dose, id |-> 0]

PeptideIds(c) == {c.peptides[i].id : i \in 1..Len(c.peptides)}

\* "Add Peptide" (disabled once four are listed)
AddPeptide ==
    /\ Len(calc.peptides) < MaxPeptides
    /\ calc' = addPeptide(calc)
    /\ derived' = Render(calc')
    /\ last' = Last("addPeptide", Empty)
    /\ store' = save(store, KEY_CALC, JsCalc(calc'))
    /\ UNCHANGED <<presets, now, notCalcVars>>

\* "Remove" on a row (rendered only while more than one row is listed)
RemovePeptide ==
    /\ Len(calc.peptides) > 1
    /\ \E id \in PeptideIds(calc) :
        /\ calc' = removePeptide(calc, id)
        /\ last' = Last("removePeptide", Empty)
    /\ derived' = Render(calc')
    /\ store' = save(store, KEY_CALC, JsCalc(calc'))
    /\ UNCHANGED <<presets, now, notCalcVars>>

\* typing into the name, vial mg or reconstitution mL input of a row
SetPeptideField ==
    /\ \E id \in PeptideIds(calc), e \in FieldEdits :
        /\ calc' = setPeptideField(calc, id, e[1], e[2])
        /\ last' = Last("setPeptideField", e[2])
    /\ derived' = Render(calc')
    /\ store' = save(store, KEY_CALC, JsCalc(calc'))
    /\ UNCHANGED <<presets, now, notCalcVars>>

\* typing into "Dose in mg"
DoseMgChange ==
    /\ \E v \in EditTexts :
        /\ calc' = doseMgChange(calc, v)
        /\ last' = Last("doseMg", v)
    /\ derived' = Render(calc')
    /\ store' = save(store, KEY_CALC, JsCalc(calc'))
    /\ UNCHANGED <<presets, now, notCalcVars>>

\* typing into "Dose in IU"
DoseIuChange ==
    /\ \E v \in EditTexts :
        /\ calc' = doseIuChange(calc, v)
        /\ last' = Last("doseIu", v)
    /\ derived' = Render(calc')
    /\ store' = save(store, KEY_CALC, JsCalc(calc'))
    /\ UNCHANGED <<presets, now, notCalcVars>>

\* "Clear Dose"
ClearDose ==
    /\ calc' = clearDose(calc)
    /\ derived' = Render(calc')
    /\ last' = Last("clearDose", Empty)
    /\ store' = save(store, KEY_CALC, JsCalc(calc'))
    /\ UNCHANGED <<presets, now, notCalcVars>>

\* "Save as Preset" with the prompt answered by a name
SavePreset ==
    /\ now < MaxNow
    /\ \E name \in SaveNames, id \in PresetIds :
        /\ presets' = savePresetUpdate(presets,
                        [id |-> id, name |-> name, data |-> calc, savedAt |-> now])
        /\ last' = Last("savePreset", name)
    /\ now' = now + 1
    /\ store' = save(store, KEY_CALC_PRESETS, JsPresets(presets'))
    /\ UNCHANGED <<calc, derived, notCalcVars>>

\* "Save as Preset" with the prompt cancelled or left empty: if (!name) return
SavePresetCancelled ==
    /\ last' = Last("savePresetCancelled", Empty)
    /\ UNCHANGED <<calc, derived, presets, now, store, notCalcVars>>

\* choosing an option of the "Load preset..." select
LoadPreset ==
    /\ presets # <<>>
    /\ \E id \in LoadIds :
        /\ calc' = loadPreset(calc, presets, id)
        /\ last' = [Last("loadPreset", Empty) EXCEPT !.id = id]
        /\ store' = IF FindById(presets, id) = 0 THEN store
                    ELSE save(store, KEY_CALC, JsCalc(calc'))
    /\ derived' = Render(calc')
    /\ UNCHANGED <<presets, now, notCalcVars>>

\* "Delete Preset": prompt for the exact name, then confirm()
DeletePreset ==
    /\ presets # <<>>
    /\ \E name \in PromptNames \ {Empty}, confirmed \in BOOLEAN :
        LET m == FindByName(presets, name)
        IN  /\ presets' = IF m # 0 /\ confirmed
                          THEN deletePresetUpdate(presets, presets[m].id)
                          ELSE presets
            /\ store' = IF m # 0 /\ confirmed
                        THEN save(store, KEY_CALC_PRESETS, JsPresets(presets'))
                        ELSE store
            /\ last' = Last("deletePreset", name)
    /\ UNCHANGED <<calc, derived, now, notCalcVars>>

NoHandler == [op |-> "none", text |-> Empty, dose |-> DefaultCalc.dose, id |-> 0]

(***************************************************************************)
(* Spec: editing the calculator (component rows and dose), no presets      *)
(***************************************************************************)
Init ==
    /\ calc = DefaultCalc
    /\ derived = Render(calc)
    /\ presets = <<>>
    /\ now = 0
    /\ last = NoHandler
    /\ NoSchedule
    /\ store = MountedStore(<<alert>>, calc, presets)
    /\ loaded = NotLoaded
    /\ saved = NotSaved

Next ==
    \/ AddPeptide
    \/ RemovePeptide
    \/ SetPeptideField
    \/ DoseMgChange
    \/ DoseIuChange
    \/ ClearDose

Spec == Init /\ [][Next]_vars

(***************************************************************************)
(* SpecPresets: saving, loading and deleting presets while the dose is     *)
(* edited.  The app starts with the presets it finds in the store: none,   *)
(* or a list one short of the cap, saved by earlier sessions.              *)
(***************************************************************************)
InitPresets ==
    /\ calc = DefaultCalc
    /\ derived = Render(calc)
    /\ presets \in {<<>>, StoredPresets}
    /\ now = 0
    /\ last = NoHandler
    /\ NoSchedule
    /\ store = MountedStore(<<alert>>, calc, presets)
    /\ loaded = NotLoaded
    /\ saved = NotSaved

NextPresets ==
    \/ DoseMgChange
    \/ ClearDose
    \/ SavePreset
    \/ SavePresetCancelled
    \/ LoadPreset
    \/ DeletePreset

SpecPresets == InitPresets /\ [][NextPresets]_vars

(***************************************************************************)
(* SpecCalc: the derived numbers as a function of the calculator inputs.   *)
(* The inputs are what loadCalc may find in the store: one to four rows    *)
(* and a dose, every field an arbitrary text.                              *)
(***************************************************************************)
TxtInfinity == InfinityText
Txt5 == <<"5">>
Txt2p0 == <<"2", ".", "0">>
Txt5abc == <<"5", "a", "b", "c">>

\* (vialMg, reconMl) of a row
RowInputs ==
    { <<Txt5, Txt2p0>>,
      <<Txt5, <<"0">>>>,
      <<Empty, Empty>>,
      <<TxtInfinity, Txt2p0>>,
      <<<<"-", "5">>, <<"1">>>>,
      <<<<"a", "b", "c">>, TxtInfinity>>,
      <<Txt5abc, <<"1", " ", "m", "g">>>> }

\* (mg, iu) of the dose
DoseInputs ==
    { <<Empty, Empty>>,
      <<<<"0", ".", "5">>, Empty>>,
      <<Empty, <<"1", "0">>>>,
      <<<<"0", ".", "5">>, <<"1", "0">>>>,
      <<TxtInfinity, Empty>>,
      <<<<"a", "b", "c">>, <<"7">>>>,
      <<<<"-", "1">>, <<"1", "0">>>>,
      <<Empty, <<"0">>>>,
      <<<<"5", ",", "5">>, Empty>>,
      <<Empty, Txt5abc>> }

RowOf(i, r) ==
    [id |-> i, name |-> IF i = 1 THEN <<"T", "e", "s", "a">> ELSE Empty,
     vialMg |-> r[1], reconMl |-> r[2]]

CalcInputs ==
    { [peptides |-> [i \in 1..Len(rs) |-> RowOf(i, rs[i])],
       dose |-> [mg |-> d[1], iu |-> d[2]]] :
        rs \in UNION {[1..m -> RowInputs] : m \in 1..MaxPeptides}, d \in DoseInputs }

InitCalc ==
    /\ calc \in CalcInputs
    /\ derived = NotComputed
    /\ presets = <<>>
    /\ now = 0
    /\ last = NoHandler
    /\ NoSchedule
    /\ store = MountedStore(<<alert>>, calc, presets)
    /\ loaded = NotLoaded
    /\ saved = NotSaved

\* a first render that also writes a dose text that counts as 0 back as empty
Compute_writingBack ==
    /\ derived = NotComputed
    /\ derived' = Render(calc)
    /\ calc' = [calc EXCEPT !.dose.mg =
                    IF OrZero(parseFloat(@)) = Zero THEN Empty ELSE @]
    /\ UNCHANGED <<presets, now, last, store, notCalcVars>>

\* the first render: useMemo computes `derived` from calc
Compute ==
    /\ derived = NotComputed
    /\ derived' = Render(calc)
    /\ UNCHANGED <<calc, presets, now, last, store, notCalcVars>>

NextCalc == Compute

SpecCalc == InitCalc /\ [][NextCalc]_vars

(***************************************************************************)
(* SpecSched: the due check as a function of the alert, the date and the   *)
(* browser's time zone                                                     *)
(***************************************************************************)
DaySpan == 3   \* the dates checked lie within this many days of 2024-01-01

BaseDay == DaysFromCivil(2024, 1, 1)
Instants ==
    {day * MinutesPerDay + m : day \in (BaseDay - DaySpan)..(BaseDay + DaySpan),
                               m \in {0, 720, 1410}}
\* UTC-12, UTC-5, UTC, UTC+5:30, UTC+14
Zones == {-720, -300, 0, 330, 840}
Patterns ==
    {Missing, Empty, PDaily, PMTWThF, PMWF, PTuThSa, PSat, PSun, PEOD, PSa,
     <<"M", " ", "W", " ", "F">>, <<"M", ",", " ", "X", ",", " ", "F">>, <<"x", "y", "z">>,
     <<"M", "o", "n", "-", "W", "e", "d", "-", "F", "r", "i">>,
     <<"M", "o", "n", "d", "a", "y", " ", "F">>,
     <<"F", " ", "M", " ", "F">>}
\* what the Plan input of an alert may hold
PlanMWF ==
    <<"M", "-", "W", "-", "F", " ", "a", "f", "t", "e", "r", " ", "w", "o", "r", "k", "o", "u", "t",
      " ", EmDash, " ", "5", "0", " ", "I", "U">>
PlanNoDay ==
    <<"2", "m", "g", " ", "A", "M", "/", "P", "M", " ", "a", "f", "t", "e", "r", " ",
      "w", "o", "r", "k", "o", "u", "t">>
Plans ==
    {Missing, Empty, PlanMWF,
     <<"T", "u", "-", "T", "h", "-", "S", "a", "t", " ", "m", "o", "r", "n", "i", "n", "g">>,
     <<"M", "o", "n", "d", "a", "y">>,
     <<"S", "a", "t", "u", "r", "d", "a", "y", "s">>,
     <<"s", "u", "/", "t", "h", "u", "r", "|", "S", "A">>,
     <<"d", "a", "i", "l", "y", " ", "5", "0", "m">>,
     <<"t", "u", "e", "_", "w", "e", "d", " ", "1", "f", "2">>,
     PlanNoDay,
     <<"8", " ", "a", ".", "m", ".">>}
Starts ==
    {Missing, Empty,
     <<"2", "0", "2", "4", "-", "0", "1", "-", "0", "1">>,
     <<"2", "0", "2", "3", "-", "1", "2", "-", "3", "1">>,
     <<"2", "0", "2", "4", "-", "0", "2", "-", "2", "9">>}

InitSched ==
    /\ calc = DefaultCalc
    /\ derived = Render(calc)
    /\ presets = <<>>
    /\ now = 0
    /\ last = NoHandler
    /\ alert \in [pattern : Patterns, start : Starts, plan : {Missing}]
               \cup [pattern : {Missing}, start : {Missing}, plan : Plans \ {Missing}]
    /\ today \in Instants
    /\ tz \in Zones
    /\ due = NotChecked
    /\ NoDashboard
    /\ store = MountedStore(<<alert>>, calc, presets)
    /\ loaded = NotLoaded
    /\ saved = NotSaved

\* the due check of an alert, by both variants, and the days shown for it
CheckDue ==
    /\ due = NotChecked
    /\ due' = << [app |-> isAlertDueToday(alert, today, tz),
                  part1 |-> isAlertDueToday1(alert, today, tz),
                  days |-> patternToDays(alert.pattern),
                  days1 |-> patternToDays1(alert.pattern),
                  threw |-> isAlertDueTodayThrows(alert),
                  threw1 |-> isAlertDueToday1Throws(alert),
                  plan |-> isAlertDueTodayPlan(alert.plan, DOW_SHORT[getDay(today, tz) + 1]),
                  planDays |-> extractDaysFromPlan(alert.plan)] >>
    /\ UNCHANGED <<alert, today, tz, store, loaded, saved, calcVars, dashVars>>

NextSched == CheckDue

SpecSched == InitSched /\ [][NextSched]_vars

(***************************************************************************)
(* SpecStore: load and save on the store.  Besides the app's own saves the *)
(* store holds whatever an earlier session, another script or the user     *)
(* left under the app's keys, or nothing (first visit, "Reset Dashboard"). *)
(***************************************************************************)
\* the keys written and read
UsedKeys == {KEY_ALERTS, KEY_CALC}

TwoRows ==
    <<DefaultCalc.peptides[1], [id |-> 2, name |-> Empty, vialMg |-> <<"1", "0">>, reconMl |-> Empty]>>

\* values the app saves: a component list, a dose input, an alert collection
\* (one alert with no start), a preset collection
SavedValues ==
    { JsPeptides(TwoRows),
      JsDose([mg |-> Empty, iu |-> <<"1", "0">>]),
      JsAlerts(<<[pattern |-> PMWF, start |-> todayKey(0), plan |-> Missing],
                 [pattern |-> PEOD, start |-> Missing, plan |-> Missing]>>),
      JsPresets(<<StoredPreset(1)>>) }

\* fallbacks the app passes: [], and the default calculator
Fallbacks == {Arr(<<>>), JsCalc(DefaultCalc)}

\* what else may be found under a key: nothing, a truncated text, the empty
\* text, the text null, a JSON text of some other value
ForeignItems ==
    { NoItem, OtherText(<<"[", "{">>), OtherText(Empty), JsonText(Null), JsonText(Str(<<"x">>)) }

InitStore ==
    /\ calc = DefaultCalc
    /\ derived = Render(calc)
    /\ presets = <<>>
    /\ now = 0
    /\ last = NoHandler
    /\ NoSchedule
    /\ store = EmptyStore
    /\ loaded = NotLoaded
    /\ saved = NotSaved

\* an effect of the app: save(k, v)
SaveItem ==
    /\ \E k \in UsedKeys, v \in SavedValues :
        /\ store' = save(store, k, v)
        /\ saved' = <<[key |-> k, value |-> v]>>
    /\ loaded' = NotLoaded
    /\ UNCHANGED <<calcVars, alert, today, tz, due, dashVars>>

\* something else writes or removes the item of a key
ForeignWrite ==
    /\ \E k \in UsedKeys, x \in ForeignItems :
        /\ store' = [store EXCEPT ![k] = x]
        /\ saved' = IF saved # NotSaved /\ saved[1].key = k THEN NotSaved ELSE saved
    /\ loaded' = NotLoaded
    /\ UNCHANGED <<calcVars, alert, today, tz, due, dashVars>>

\* load(k, fallback)
LoadItem ==
    /\ \E k \in UsedKeys, fallback \in Fallbacks :
        loaded' = <<[key |-> k, fallback |-> fallback, result |-> load(store, k, fallback)]>>
    /\ UNCHANGED <<calcVars, alert, today, tz, due, store, saved, dashVars>>

NextStore ==
    \/ SaveItem
    \/ ForeignWrite
    \/ LoadItem

SpecStore == InitStore /\ [][NextStore]_vars

(***************************************************************************)
(* The dashboard of src/src/App.jsx (first App component): state updaters   *)
(***************************************************************************)
MaxAlerts == 8

\* setDoneToday updater of toggleDone
toggleDone(p, id) ==
    IF Includes(p, id) THEN SelectSeq(p, LAMBDA x : x # id) ELSE Append(p, id)

\* [...new Set(xs)]: the first occurrence of each element, in order
RECURSIVE Distinct(_)
Distinct(xs) ==
    IF xs = <<>> THEN <<>>
    ELSE LET front == Distinct(SubSeq(xs, 1, Len(xs) - 1))
         IN  IF Includes(front, xs[Len(xs)]) THEN front ELSE Append(front, xs[Len(xs)])

\* markAllComplete: [...new Set([...doneToday, ...dueAlerts.map(a => a.id)])]
markAllCompleteIds(done, dueList) ==
    Distinct(done \o [i \in 1..Len(dueList) |-> dueList[i].id])

\* setAlerts updaters
updateAlertField(p, id, f, v) ==
    [i \in 1..Len(p) |-> IF p[i].id = id THEN [p[i] EXCEPT ![f] = v] ELSE p[i]]
addAlert_noCap(p, id, t) ==
    Append(p, [id |-> id, name |-> Empty, pattern |-> PDaily, start |-> todayKey(t),
               plan |-> Missing])
addAlert(p, id, t) ==
    IF Len(p) >= MaxAlerts THEN p
    ELSE Append(p, [id |-> id, name |-> Empty, pattern |-> PDaily, start |-> todayKey(t),
                    plan |-> Missing])
removeAlert(p, id) == WithoutId(p, id)

\* alerts.filter(a => isAlertDueToday(a)) at the instant t in the zone z
dueAlertsOf(as, t, z) == SelectSeq(as, LAMBDA a : isAlertDueToday(a, t, z))

\* prev.findIndex(r => r.date === k), as an index or 0
FindIndexOfDate(prev, k) ==
    IF \E i \in 1..Len(prev) : prev[i].date = k
    THEN CHOOSE i \in 1..Len(prev) : prev[i].date = k /\ \A j \in 1..(i - 1) : prev[j].date # k
    ELSE 0

\* setHistory updater of saveTodayKPIs: the record of the date k replaced in
\* place (the first one found), or a new record pushed
saveTodayKPIs_push(prev, k, kp) == Append(prev, [date |-> k, kpis |-> kp])
saveTodayKPIs(prev, k, kp) ==
    LET rec == [date |-> k, kpis |-> kp]
        idx == FindIndexOfDate(prev, k)
    IN  IF idx > 0 THEN [prev EXCEPT ![idx] = rec] ELSE Append(prev, rec)

\* saveTodayKPIs of part_001: next[idx] = {...next[idx], ...record}
saveTodayKPIs1(prev, k, kp) ==
    LET rec == [date |-> k, kpis |-> kp]
        idx == FindIndexOfDate(prev, k)
    IN  IF idx > 0
        THEN [prev EXCEPT ![idx] = [f \in DOMAIN @ \cup DOMAIN rec |->
                                       IF f \in DOMAIN rec THEN rec[f] ELSE @[f]]]
        ELSE Append(prev, rec)

\* setHistory updater of saveToday (second and third App of App.jsx,
\* part_000): the record also holds the checklist saveToday sees
saveToday(prev, k, kp, cl) ==
    LET rec == [date |-> k, kpis |-> kp, checklist |-> cl]
        idx == FindIndexOfDate(prev, k)
    IN  IF idx > 0 THEN [prev EXCEPT ![idx] = rec] ELSE Append(prev, rec)

\* Object.fromEntries(rows.map(r => [r.id, {done:true, ts: ...}]))
AllDone(rs) == [id \in {rs[i].id : i \in 1..Len(rs)} |-> TRUE]

\* setChecklist updater of toggleRow: {...p, [id]: {done: !p[id]?.done, ...}}
toggleRow(p, id) ==
    [x \in DOMAIN p \cup {id} |-> IF x = id THEN ~(id \in DOMAIN p /\ p[id]) ELSE p[x]]

\* setRows updater of updateRow: {...r, [f]: v}, v the text of the input
updateRow(p, id, f, v) ==
    [i \in 1..Len(p) |-> IF p[i].id = id THEN [p[i] EXCEPT ![f] = v] ELSE p[i]]

\* the save effects of the first render, in the order of the useEffect calls
MountEffects(st, dateKey) ==
    LET s1 == save(st, KEY_KPIS, JsKpis(kpis'))
        s2 == save(s1, KEY_HISTORY, JsHistory(history'))
        s3 == save(s2, KEY_ALERTS, JsAlertItems(alerts'))
        s4 == save(s3, KEY_DONE(dateKey), JsIds(doneToday'))
        s5 == save(s4, KEY_STACK, JsRows(rows'))
        s6 == save(s5, KEY_NOTES, Str(notesText'))
        s7 == save(s6, KEY_CALC, JsCalc(calc'))
    IN  save(s7, KEY_CALC_PRESETS, JsPresets(presets'))

(***************************************************************************)
(* SpecReload: the dashboard is used, then the page is reloaded.  The date *)
(* and the zone stay as they are; the store is the one an earlier visit    *)
(* left.                                                                   *)
(***************************************************************************)
KpiTexts == {Empty, <<"2", "1", "8">>}
NoteTexts == {Empty, <<"o", "k">>}
NewAlertIds == {"n1"}
\* the alerts and rows whose buttons and boxes are used
RemovedIds == {"n1"}
TickedAlerts == {"ss"}
TickedRows == {"motsc"}
DaysTexts == {<<"M">>}
EditedAlerts == {"n1", "shb"}

InitReload ==
    /\ calc = DefaultCalc
    /\ derived = Render(calc)
    /\ presets \in {<<>>, <<StoredPreset(1)>>}
    /\ now = 0
    /\ last = NoHandler
    /\ today = 0
    /\ tz = 0
    /\ alert = [pattern |-> PMWF, start |-> todayKey(0), plan |-> Missing]
    /\ due = NotChecked
    /\ kpis = EmptyKpis
    /\ history = <<>>
    /\ alerts = DEFAULT_ALERTS(today)
    /\ doneToday = <<>>
    /\ dueAlerts = dueAlertsOf(alerts, today, tz)
    /\ rows = DEFAULT_STACK_ROWS
    /\ checklist = NothingDone(rows)
    /\ notesText = Empty
    /\ timers = <<>>
    /\ marked = {}
    /\ visibleRows = visibleRowsOf(rows, today, tz)
    /\ schedule = <<>>
    /\ store = LET s1 == save(EmptyStore, KEY_KPIS, JsKpis(kpis))
                   s2 == save(s1, KEY_HISTORY, JsHistory(history))
                   s3 == save(s2, KEY_ALERTS, JsAlertItems(alerts))
                   s4 == save(s3, KEY_DONE(todayKey(today)), JsIds(doneToday))
                   s5 == save(s4, KEY_STACK, JsRows(rows))
                   s6 == save(s5, KEY_NOTES, Str(notesText))
                   s7 == save(s6, KEY_CALC, JsCalc(calc))
               IN  save(s7, KEY_CALC_PRESETS, JsPresets(presets))
    /\ loaded = NotLoaded
    /\ saved = NotSaved

\* typing into the Weight input: setKpis(v => ({...v, weight: text}))
SetKpi ==
    /\ \E v \in KpiTexts : kpis' = [kpis EXCEPT !.weight = v]
    /\ last' = Last("setKpis", Empty)
    /\ store' = save(store, KEY_KPIS, JsKpis(kpis'))
    /\ UNCHANGED <<calc, derived, presets, now, alert, today, tz, due, loaded, saved,
                   history, alerts, doneToday, dueAlerts, rows, checklist, notesText, timers, marked, visibleRows, schedule>>

\* "Save Today"
SaveTodayKPIs ==
    /\ history' = saveTodayKPIs(history, todayKey(today), kpis)
    /\ last' = Last("saveTodayKPIs", Empty)
    /\ store' = save(store, KEY_HISTORY, JsHistory(history'))
    /\ UNCHANGED <<calc, derived, presets, now, alert, today, tz, due, loaded, saved,
                   kpis, alerts, doneToday, dueAlerts, rows, checklist, notesText, timers, marked, visibleRows, schedule>>

\* the checkbox of a due alert
ToggleDone ==
    /\ \E i \in 1..Len(dueAlerts) :
        /\ dueAlerts[i].id \in TickedAlerts
        /\ doneToday' = toggleDone(doneToday, dueAlerts[i].id)
        /\ marked' = IF Includes(doneToday, dueAlerts[i].id) THEN marked
                      ELSE marked \cup {<<todayKey(today), dueAlerts[i].id>>}
    /\ last' = Last("toggleDone", Empty)
    /\ store' = save(store, KEY_DONE(todayKey(today)), JsIds(doneToday'))
    /\ UNCHANGED <<calc, derived, presets, now, alert, today, tz, due, loaded, saved,
                   kpis, history, alerts, dueAlerts, rows, checklist, notesText, timers, visibleRows, schedule>>

\* "Add Alert"
AddAlert ==
    /\ \E id \in NewAlertIds : alerts' = addAlert(alerts, id, today)
    /\ dueAlerts' = IF alerts' = alerts THEN dueAlerts ELSE dueAlertsOf(alerts', today, tz)
    /\ last' = Last("addAlert", Decimal(Len(alerts)))
    /\ store' = IF alerts' = alerts THEN store ELSE save(store, KEY_ALERTS, JsAlertItems(alerts'))
    /\ UNCHANGED <<calc, derived, presets, now, alert, today, tz, due, loaded, saved,
                   kpis, history, doneToday, rows, checklist, notesText, timers, marked, visibleRows, schedule>>

\* "Remove" of an alert
RemoveAlert ==
    /\ \E i \in 1..Len(alerts) :
        /\ alerts[i].id \in RemovedIds
        /\ alerts' = removeAlert(alerts, alerts[i].id)
    /\ dueAlerts' = dueAlertsOf(alerts', today, tz)
    /\ last' = Last("removeAlert", Empty)
    /\ store' = save(store, KEY_ALERTS, JsAlertItems(alerts'))
    /\ UNCHANGED <<calc, derived, presets, now, alert, today, tz, due, loaded, saved,
                   kpis, history, doneToday, rows, checklist, notesText, timers, marked, visibleRows, schedule>>

\* the checkbox of a schedule row: no effect saves the checklist
ToggleRow ==
    /\ \E i \in 1..Len(rows) :
        /\ rows[i].id \in TickedRows
        /\ checklist' = toggleRow(checklist, rows[i].id)
    /\ last' = Last("toggleRow", Empty)
    /\ UNCHANGED <<calc, derived, presets, now, alert, today, tz, due, store, loaded, saved,
                   kpis, history, alerts, doneToday, dueAlerts, rows, notesText, timers, marked, visibleRows, schedule>>

\* typing into the Days input of a weekly row (edit mode)
UpdateRowDays ==
    /\ \E i \in 1..Len(rows), v \in DaysTexts :
        /\ rows[i].time = "Weekly" /\ rows[i].id = "survo"
        /\ rows' = updateRow(rows, rows[i].id, "days", Str(v))
    /\ visibleRows' = visibleRowsOf(rows', today, tz)
    /\ last' = Last("updateRow", Empty)
    /\ store' = save(store, KEY_STACK, JsRows(rows'))
    /\ UNCHANGED <<calc, derived, presets, now, alert, today, tz, due, loaded, saved,
                   kpis, history, alerts, doneToday, dueAlerts, checklist, notesText, timers, marked, schedule>>

\* "Reset to Default"
ResetRows ==
    /\ rows' = DEFAULT_STACK_ROWS
    /\ visibleRows' = visibleRowsOf(rows', today, tz)
    /\ last' = Last("resetRows", Empty)
    /\ store' = save(store, KEY_STACK, JsRows(rows'))
    /\ UNCHANGED <<calc, derived, presets, now, alert, today, tz, due, loaded, saved,
                   kpis, history, alerts, doneToday, dueAlerts, checklist, notesText, timers, marked, schedule>>

\* typing into the notes drawer
SetNotesText ==
    /\ \E v \in NoteTexts : notesText' = v
    /\ last' = Last("setNotesText", Empty)
    /\ store' = save(store, KEY_NOTES, Str(notesText'))
    /\ UNCHANGED <<calc, derived, presets, now, alert, today, tz, due, loaded, saved,
                   kpis, history, alerts, doneToday, dueAlerts, rows, checklist, timers, marked, visibleRows, schedule>>

\* window.location.reload(): every useState initialiser runs again on the
\* store, then the save effects of the first render
Reload ==
    /\ kpis' = KpisOfJs(load(store, KEY_KPIS, JsKpis(EmptyKpis)).value)
    /\ history' = HistoryOfJs(load(store, KEY_HISTORY, Arr(<<>>)).value)
    /\ alerts' = AlertItemsOfJs(load(store, KEY_ALERTS, JsAlertItems(DEFAULT_ALERTS(today))).value)
    /\ doneToday' = IdsOfJs(load(store, KEY_DONE(todayKey(today)), Arr(<<>>)).value)
    /\ dueAlerts' = dueAlertsOf(alerts', today, tz)
    /\ rows' = RowsOfJs(load(store, KEY_STACK, JsRows(DEFAULT_STACK_ROWS)).value)
    /\ checklist' = NothingDone(rows')
    /\ notesText' = load(store, KEY_NOTES, Str(Empty)).value.s
    /\ calc' = CalcOfJs(load(store, KEY_CALC, JsCalc(DefaultCalc)).value)
    /\ derived' = Render(calc')
    /\ presets' = PresetsOfJs(load(store, KEY_CALC_PRESETS, Arr(<<>>)).value)
    /\ timers' = <<>>
    /\ marked' = marked
    /\ visibleRows' = visibleRowsOf(rows', today, tz)
    /\ last' = [Last("reload", Empty) EXCEPT !.dose = calc'.dose]
    /\ store' = MountEffects(store, todayKey(today))
    /\ UNCHANGED <<now, alert, today, tz, due, loaded, saved, schedule>>

NextReload ==
    \/ SetKpi
    \/ SaveTodayKPIs
    \/ ToggleDone
    \/ AddAlert
    \/ RemoveAlert
    \/ ToggleRow
    \/ UpdateRowDays
    \/ ResetRows
    \/ SetNotesText
    \/ DoseMgChange
    \/ Reload

SpecReload == InitReload /\ [][NextReload]_vars

(***************************************************************************)
(* SpecAlerts: the alert list under Add, Remove and field edits.  The add  *)
(* handlers of src/src/App.jsx (the same in part_001) and of part_000 act   *)
(* on one list.                                                            *)
(***************************************************************************)
InitAlerts == InitReload /\ presets = <<>>

\* typing into the Pattern input of an alert
UpdateAlertField ==
    /\ \E i \in 1..Len(alerts) :
        /\ alerts[i].id \in EditedAlerts
        /\ alerts' = updateAlertField(alerts, alerts[i].id, "pattern", PEOD)
    /\ dueAlerts' = dueAlertsOf(alerts', today, tz)
    /\ last' = Last("updateAlertField", Empty)
    /\ store' = save(store, KEY_ALERTS, JsAlertItems(alerts'))
    /\ UNCHANGED <<calc, derived, presets, now, alert, today, tz, due, loaded, saved,
                   kpis, history, doneToday, rows, checklist, notesText, timers, marked, visibleRows, schedule>>

\* addAlert of part_000: if (alerts.length >= 8) return; then the new card is
\* appended (this variant keeps its alerts in memory only)
AddAlert0 ==
    /\ alerts' = IF Len(alerts) >= MaxAlerts THEN alerts
                 ELSE Append(alerts, [id |-> "alrt1", name |-> Empty, pattern |-> Missing,
                                      start |-> Missing, plan |-> Empty])
    /\ dueAlerts' = IF alerts' = alerts THEN dueAlerts ELSE dueAlertsOf(alerts', today, tz)
    /\ last' = Last("addAlert", Decimal(Len(alerts)))
    /\ UNCHANGED <<calc, derived, presets, now, alert, today, tz, due, store, loaded, saved,
                   kpis, history, doneToday, rows, checklist, notesText, timers, marked, visibleRows, schedule>>

NextAlerts ==
    \/ AddAlert
    \/ AddAlert0
    \/ RemoveAlert
    \/ UpdateAlertField

SpecAlerts == InitAlerts /\ [][NextAlerts]_vars

(***************************************************************************)
(* SpecDue: the app stays open while time passes.  The header clock        *)
(* renders the app again every minute; a render recomputes a memo only     *)
(* when one of its dependencies has changed.                               *)
(***************************************************************************)
MaxTicks == 3          \* so many half days pass
HalfDay == 720         \* minutes

InitDue == InitAlerts

\* setClock(formatClockFull()) of the interval, half a day later: dueAlerts is
\* useMemo(..., [alerts]) and alerts has not changed
Tick ==
    /\ today < MaxTicks * HalfDay
    /\ today' = today + HalfDay
    /\ last' = Last("setClock", Empty)
    /\ UNCHANGED <<calc, derived, presets, now, alert, tz, due, store, loaded, saved, dashVars>>

\* "Mark All Complete"; the effect saves under todayKey() of its own run
MarkAllComplete ==
    /\ doneToday' = markAllCompleteIds(doneToday, dueAlerts)
    /\ marked' = marked \cup {<<todayKey(today), dueAlerts[i].id>> : i \in 1..Len(dueAlerts)}
    /\ last' = Last("markAllComplete", Empty)
    /\ store' = save(store, KEY_DONE(todayKey(today)), JsIds(doneToday'))
    /\ UNCHANGED <<calc, derived, presets, now, alert, today, tz, due, loaded, saved,
                   kpis, history, alerts, dueAlerts, rows, checklist, notesText, timers, visibleRows, schedule>>

NextDue ==
    \/ Tick
    \/ ToggleDone
    \/ MarkAllComplete
    \/ UpdateAlertField

SpecDue == InitDue /\ [][NextDue]_vars

(***************************************************************************)
(* SpecMark: "Mark Complete" and its delayed save (second App of           *)
(* src/src/App.jsx; the third App and part_000 do the same and also mark   *)
(* alert cards).  A function created by a render sees the state of that    *)
(* render: a timer holds the saveToday of the render in which the button  *)
(* was clicked.                                                            *)
(***************************************************************************)
MaxTimers == 2      \* so many delayed saves may be pending

InitMark == InitAlerts

\* markComplete / markAllComplete: setChecklist(allDone); setTimeout(saveToday, 50)
MarkComplete ==
    /\ Len(timers) < MaxTimers
    /\ checklist' = AllDone(rows)
    /\ timers' = Append(timers, [kpis |-> kpis, checklist |-> checklist])
    /\ last' = Last("markComplete", Empty)
    /\ UNCHANGED <<calc, derived, presets, now, alert, today, tz, due, store, loaded, saved,
                   kpis, history, alerts, doneToday, dueAlerts, rows, notesText, marked, visibleRows, schedule>>

\* the timer runs the saveToday it holds; the history effect saves
TimerFires ==
    /\ timers # <<>>
    /\ history' = saveToday(history, todayKey(today), Head(timers).kpis, Head(timers).checklist)
    /\ timers' = Tail(timers)
    /\ last' = Last("saveToday (timer)", Empty)
    /\ store' = save(store, KEY_HISTORY, JsHistory(history'))
    /\ UNCHANGED <<calc, derived, presets, now, alert, today, tz, due, loaded, saved,
                   kpis, alerts, doneToday, dueAlerts, rows, checklist, notesText, marked, visibleRows, schedule>>

\* "Save Today" of these variants: saveToday of the current render
SaveToday ==
    /\ history' = saveToday(history, todayKey(today), kpis, checklist)
    /\ last' = Last("saveToday", Empty)
    /\ store' = save(store, KEY_HISTORY, JsHistory(history'))
    /\ UNCHANGED <<calc, derived, presets, now, alert, today, tz, due, loaded, saved,
                   kpis, alerts, doneToday, dueAlerts, rows, checklist, notesText, timers, marked, visibleRows, schedule>>

NextMark ==
    \/ ToggleRow
    \/ MarkComplete
    \/ TimerFires
    \/ SaveToday

SpecMark == InitMark /\ [][NextMark]_vars

(***************************************************************************)
(* SpecHistory: the Save Today buttons over several days.  The history at  *)
(* the start is one the program wrote: records of distinct dates, in any   *)
(* order (seedDemoDataIfEmpty writes one record a day).                    *)
(***************************************************************************)
SeedKpis == [weight |-> <<"2", "1", "8">>, sleep |-> <<"6">>,
             waist |-> <<"3", "4">>, energy |-> <<"7">>]
DayKey(n) == todayKey(n * MinutesPerDay)
StartHistories ==
    { <<>>,
      <<[date |-> DayKey(0), kpis |-> SeedKpis]>>,
      <<[date |-> DayKey(1), kpis |-> SeedKpis], [date |-> DayKey(0), kpis |-> SeedKpis]>>,
      <<[date |-> DayKey(0), kpis |-> SeedKpis, checklist |-> AllDone(DEFAULT_STACK_ROWS)],
        [date |-> DayKey(2), kpis |-> EmptyKpis]>> }

InitHistory ==
    /\ calc = DefaultCalc
    /\ derived = Render(calc)
    /\ presets = <<>>
    /\ now = 0
    /\ last = NoHandler
    /\ today = 0
    /\ tz = 0
    /\ alert = [pattern |-> PMWF, start |-> todayKey(0), plan |-> Missing]
    /\ due = NotChecked
    /\ kpis \in {EmptyKpis, SeedKpis}
    /\ history \in StartHistories
    /\ alerts = DEFAULT_ALERTS(today)
    /\ doneToday = <<>>
    /\ dueAlerts = dueAlertsOf(alerts, today, tz)
    /\ rows = DEFAULT_STACK_ROWS
    /\ checklist = NothingDone(rows)
    /\ notesText = Empty
    /\ timers = <<>>
    /\ marked = {}
    /\ visibleRows = visibleRowsOf(rows, today, tz)
    /\ schedule = <<>>
    /\ store = LET s1 == save(EmptyStore, KEY_KPIS, JsKpis(kpis))
                   s2 == save(s1, KEY_HISTORY, JsHistory(history))
                   s3 == save(s2, KEY_ALERTS, JsAlertItems(alerts))
                   s4 == save(s3, KEY_DONE(todayKey(today)), JsIds(doneToday))
                   s5 == save(s4, KEY_STACK, JsRows(rows))
                   s6 == save(s5, KEY_NOTES, Str(notesText))
                   s7 == save(s6, KEY_CALC, JsCalc(calc))
               IN  save(s7, KEY_CALC_PRESETS, JsPresets(presets))
    /\ loaded = NotLoaded
    /\ saved = NotSaved

\* "Save Today" of src/unnamed/part_001
SaveTodayKPIs1 ==
    /\ history' = saveTodayKPIs1(history, todayKey(today), kpis)
    /\ last' = Last("saveTodayKPIs", Empty)
    /\ store' = save(store, KEY_HISTORY, JsHistory(history'))
    /\ UNCHANGED <<calc, derived, presets, now, alert, today, tz, due, loaded, saved,
                   kpis, alerts, doneToday, dueAlerts, rows, checklist, notesText, timers, marked, visibleRows, schedule>>

NextHistory ==
    \/ SetKpi
    \/ Tick
    \/ SaveTodayKPIs
    \/ SaveTodayKPIs1
    \/ SaveToday

SpecHistory == InitHistory /\ [][NextHistory]_vars

(***************************************************************************)
(* SpecRows: the schedule rows of the first App of src/src/App.jsx while   *)
(* the app stays open: the Days input of a weekly row in edit mode, Reset  *)
(* to Default, and the clock.  The visibleRows memo is computed again in   *)
(* a render in which `rows` has changed, and in no other.                  *)
(***************************************************************************)
RowDaysTexts ==
    {Empty, <<"T", "h", "u">>, <<"F", "r", "i">>, <<"S">>,
     <<"M", "o", "n", ",", " ", "F", "r", "i">>}

InitRows == InitAlerts

\* the Days input of a weekly row: the text selected and replaced by v
EditRowDays ==
    /\ \E i \in 1..Len(rows), v \in RowDaysTexts :
        /\ rows[i].time = "Weekly"
        /\ rows' = updateRow(rows, rows[i].id, "days", Str(v))
        /\ last' = Last("updateRow", v)
    /\ visibleRows' = visibleRowsOf(rows', today, tz)
    /\ store' = save(store, KEY_STACK, JsRows(rows'))
    /\ UNCHANGED <<calc, derived, presets, now, alert, today, tz, due, loaded, saved,
                   kpis, history, alerts, doneToday, dueAlerts, checklist, notesText, timers, marked, schedule>>

NextRows ==
    \/ Tick
    \/ EditRowDays
    \/ ResetRows

SpecRows == InitRows /\ [][NextRows]_vars

(***************************************************************************)
(* SpecCycle: the four-week protocol of the second App of src/src/App.jsx. *)
(* dow, weekIndexInCycle and the schedule are computed when the page is    *)
(* loaded; the page is loaded again and again over four weeks.             *)
(***************************************************************************)
MaxLoadDay == 28    \* the page is loaded up to so many days after the first load
CycleDays == 28
WeekDays == 7

\* PROTOCOL_4W.compounds that are not hiddenInSchedule: id and freq
PROTOCOL_4W_compounds ==
    << [id |-> "tesa", freq |-> "eod"], [id |-> "cjcipa", freq |-> "am"],
       [id |-> "klow", freq |-> "post-wo"], [id |-> "dsip", freq |-> "bed"] >>
\* PROTOCOL_4W.weeks[w].days
PROTOCOL_4W_weeks ==
    << <<TRUE, FALSE, TRUE, FALSE, TRUE, FALSE, TRUE>>,
       <<FALSE, TRUE, FALSE, TRUE, FALSE, TRUE, FALSE>>,
       <<TRUE, FALSE, TRUE, FALSE, TRUE, FALSE, TRUE>>,
       <<FALSE, TRUE, FALSE, TRUE, FALSE, TRUE, FALSE>> >>

\* new Date().setHours(0,0,0,0) at the instant t: the local midnight before t
setHours0(t, z) == LocalDay(t, z) * MinutesPerDay - z

\* Math.floor(((Date.now() - new Date().setHours(0,0,0,0)) / day) % 28 / 7):
\* with e the time since midnight, ((e / day) % 28) / 7 = (e % (28 day)) / (7 day)
weekIndexInCycle(t, z) ==
    LET e == t - setHours0(t, z)
    IN  FloorDiv(JsRem(e, CycleDays * MinutesPerDay), WeekDays * MinutesPerDay)

buildTodaySchedule(t, z) ==
    LET w == weekIndexInCycle(t, z)
        week == IF w + 1 \in 1..Len(PROTOCOL_4W_weeks) THEN PROTOCOL_4W_weeks[w + 1]
                ELSE <<TRUE, TRUE, TRUE, TRUE, TRUE, TRUE, TRUE>>
        shown == SelectSeq(PROTOCOL_4W_compounds,
                           LAMBDA c : c.freq = "eod" => week[getDay(t, z) + 1])
    IN  [i \in 1..Len(shown) |-> shown[i].id]

CycleZones == {-300, 0}
LoadSteps == {MinutesPerDay \div 4, MinutesPerDay, WeekDays * MinutesPerDay}

InitCycle ==
    /\ calc = DefaultCalc
    /\ derived = Render(calc)
    /\ presets = <<>>
    /\ now = 0
    /\ last = NoHandler
    /\ alert = [pattern |-> PMWF, start |-> todayKey(0), plan |-> Missing]
    /\ today = 0
    /\ tz \in CycleZones
    /\ due = NotChecked
    /\ store = EmptyStore
    /\ loaded = NotLoaded
    /\ saved = NotSaved
    /\ kpis = EmptyKpis
    /\ history = <<>>
    /\ alerts = DEFAULT_ALERTS(0)
    /\ doneToday = <<>>
    /\ dueAlerts = <<>>
    /\ rows = DEFAULT_STACK_ROWS
    /\ checklist = NothingDone(DEFAULT_STACK_ROWS)
    /\ notesText = Empty
    /\ timers = <<>>
    /\ marked = {}
    /\ visibleRows = <<>>
    /\ schedule = buildTodaySchedule(today, tz)

\* the page is loaded at a later instant: useState(defaultSchedule)
LoadPage ==
    /\ \E step \in LoadSteps :
        /\ today + step <= MaxLoadDay * MinutesPerDay
        /\ today' = today + step
    /\ schedule' = buildTodaySchedule(today', tz)
    /\ last' = Last("load", Empty)
    /\ UNCHANGED <<calc, derived, presets, now, alert, tz, due, store, loaded, saved,
                   kpis, history, alerts, doneToday, dueAlerts, rows, checklist, notesText,
                   timers, marked, visibleRows>>

NextCycle == LoadPage

SpecCycle == InitCycle /\ [][NextCycle]_vars

(***************************************************************************)
(* Properties of the derived numbers (SpecCalc)                            *)
(***************************************************************************)
Computed == derived # NotComputed
D == derived[1]

\* the numbers the calculator reads from the rows and the dose fields
VialNums == [i \in 1..Len(calc.peptides) |-> OrZero(parseFloat(calc.peptides[i].vialMg))]
ReconNums == [i \in 1..Len(calc.peptides) |-> OrZero(parseFloat(calc.peptides[i].reconMl))]
DoseMgNum == OrZero(parseFloat(calc.dose.mg))
DoseIuNum == OrZero(parseFloat(calc.dose.iu))

RECURSIVE RefSum(_)
RefSum(xs) == IF xs = <<>> THEN Zero ELSE NumAdd(Head(xs), RefSum(Tail(xs)))

RefConcentration ==
    IF Gt0(RefSum(ReconNums)) THEN NumDiv(RefSum(VialNums), RefSum(ReconNums)) ELSE Zero

TwoFiveMgInTwoMl ==
    /\ Len(calc.peptides) = 2
    /\ \A i \in 1..2 : calc.peptides[i].vialMg = Txt5 /\ calc.peptides[i].reconMl = Txt2p0

\* C3: the blend metrics equal the reference formulas: the totals are the sums
\* of the rows' masses and volumes, the concentration is mass / volume when the
\* volume is positive and 0 otherwise, mg per unit is concentration / 100 and
\* units per mg is 1 / (mg per unit) when that is positive and 0 otherwise; two
\* rows of 5 mg in 2 mL give 10 mg, 4 mL, 2.5 mg/mL, 0.025 mg/unit, 40 units/mg.
C3_BlendMetrics ==
    Computed =>
        /\ D.totalVialMg = RefSum(VialNums)
        /\ D.totalReconMl = RefSum(ReconNums)
        /\ D.mgPerMl = RefConcentration
        /\ D.mgPerIU = NumDiv(RefConcentration, Num(100))
        /\ D.iuPerMg = IF Gt0(NumDiv(RefConcentration, Num(100)))
                       THEN NumDiv(Num(1), NumDiv(RefConcentration, Num(100)))
                       ELSE Zero
        /\ TwoFiveMgInTwoMl =>
            /\ D.totalVialMg = Num(10)
            /\ D.totalReconMl = Num(4)
            /\ D.mgPerMl = Rat(5, 2)
            /\ D.mgPerIU = Rat(1, 40)
            /\ D.iuPerMg = Num(40)

C3_Witness == Computed /\ TwoFiveMgInTwoMl /\ D.mgPerMl = Rat(5, 2) /\ D.iuPerMg = Num(40)

\* the derived numbers with the IU field replaced by the text v
WithIu(v) == Derived([calc EXCEPT !.dose.iu = v])

\* C4: the dose in mg is the mass field when it parses to a positive number,
\* else (units / 100) * concentration when the unit field parses to a positive
\* number, else 0; while the mass field is positive, the unit field changes
\* no derived number.
C4_DoseResolution ==
    Computed =>
        /\ D.totalDoseMg =
            IF Gt0(DoseMgNum) THEN DoseMgNum
            ELSE IF Gt0(DoseIuNum)
                 THEN NumMul(NumDiv(DoseIuNum, Num(100)), RefConcentration)
                 ELSE Zero
        /\ Gt0(DoseMgNum) => \A d \in DoseInputs : WithIu(d[2]) = D

C4_Witness ==
    /\ Computed
    /\ Gt0(DoseMgNum) /\ Gt0(DoseIuNum)
    /\ Gt0(D.mgPerMl)
    /\ D.totalDoseMg = Rat(1, 2)
    /\ D.totalDoseMg # NumMul(NumDiv(DoseIuNum, Num(100)), D.mgPerMl)

\* C5: with a concentration > 0 the draw volume is dose / concentration and the
\* draw units are 100 times that, so a dose of U > 0 units (mass field not
\* positive) comes back as U units and U / 100 mL.
C5_UnitsRoundTrip ==
    (Computed /\ Gt0(D.mgPerMl)) =>
        /\ D.drawMlFromMg = NumDiv(D.totalDoseMg, D.mgPerMl)
        /\ D.iuFromMg = NumMul(D.drawMlFromMg, Num(100))
        /\ (~Gt0(DoseMgNum) /\ Gt0(DoseIuNum)) =>
            /\ D.iuFromMg = DoseIuNum
            /\ D.drawMlFromMg = NumDiv(DoseIuNum, Num(100))

AllFinite(d) ==
    /\ \A f \in {"totalVialMg", "totalReconMl", "mgPerMl", "mgPerIU", "iuPerMg",
                 "totalDoseMg", "drawMlFromMg", "iuFromMg"} : IsFinite(d[f])
    /\ \A i \in 1..Len(d.perPeptide) :
        IsFinite(d.perPeptide[i].share) /\ IsFinite(d.perPeptide[i].mgInDose)

\* C6: no derived field is ever NaN or Infinity, whatever the texts of the
\* fields; when every row's volume is 0 the concentration, mg per unit, units
\* per mg, draw volume and draw units are 0.
C6_NoNaNNoInfinity ==
    Computed =>
        /\ AllFinite(D)
        /\ (\A i \in 1..Len(ReconNums) : ReconNums[i] = Zero) =>
            \A f \in {"mgPerMl", "mgPerIU", "iuPerMg", "drawMlFromMg", "iuFromMg"} :
                D[f] = Zero

\* the shares and the masses in the dose, as the calculator lists them
Shares == [i \in 1..Len(D.perPeptide) |-> D.perPeptide[i].share]
MassesInDose == [i \in 1..Len(D.perPeptide) |-> D.perPeptide[i].mgInDose]
NonNegative(a) == a = Zero \/ Gt0(a)

\* C16: a component's share is its mass / the total mass, 0 when the total is
\* 0, and its mass in the dose is the dose in mg times its share; so when no
\* mass is negative and the total is positive, the shares add up to 1 and the
\* masses in the dose add up to the dose in mg; two 5 mg components at a dose
\* of 0.5 mg get 0.25 mg each.
C16_Shares ==
    Computed =>
        /\ Len(D.perPeptide) = Len(calc.peptides)
        /\ \A i \in 1..Len(calc.peptides) :
            /\ Shares[i] = IF RefSum(VialNums) = Zero THEN Zero
                           ELSE NumDiv(VialNums[i], RefSum(VialNums))
            /\ MassesInDose[i] = NumMul(D.totalDoseMg, Shares[i])
        /\ ((\A i \in 1..Len(VialNums) : NonNegative(VialNums[i])) /\ Gt0(RefSum(VialNums))) =>
            /\ RefSum(Shares) = Num(1)
            /\ RefSum(MassesInDose) = D.totalDoseMg
        /\ (TwoFiveMgInTwoMl /\ DoseMgNum = Rat(1, 2)) =>
            \A i \in 1..2 : Shares[i] = Rat(1, 2) /\ MassesInDose[i] = Rat(1, 4)

\* the same where every derived number is finite, with the share 0 whenever
\* the total is not positive
C16_WhenFinite ==
    (Computed /\ AllFinite(D)) =>
        /\ Len(D.perPeptide) = Len(calc.peptides)
        /\ \A i \in 1..Len(calc.peptides) :
            /\ Shares[i] = IF Gt0(RefSum(VialNums))
                           THEN NumDiv(VialNums[i], RefSum(VialNums)) ELSE Zero
            /\ MassesInDose[i] = NumMul(D.totalDoseMg, Shares[i])
        /\ Gt0(RefSum(VialNums)) =>
            /\ RefSum(Shares) = Num(1)
            /\ RefSum(MassesInDose) = D.totalDoseMg
        /\ (TwoFiveMgInTwoMl /\ DoseMgNum = Rat(1, 2)) =>
            \A i \in 1..2 : Shares[i] = Rat(1, 2) /\ MassesInDose[i] = Rat(1, 4)

\* a text that is a number from its first to its last character: an optional
\* sign, then Infinity or digits with at most one decimal point
IsNumberText(t) ==
    LET body == IF t # <<>> /\ Head(t) \in {"-", "+"} THEN Tail(t) ELSE t
        dots == {i \in 1..Len(body) : body[i] = "."}
    IN  \/ body = InfinityText
        \/ /\ \E i \in 1..Len(body) : IsDigit(body[i])
           /\ \A i \in 1..Len(body) : IsDigit(body[i]) \/ body[i] = "."
           /\ Cardinality(dots) <= 1

\* a text whose first character other than a sign is a digit or a point
StartsLikeNumber(t) ==
    LET body == IF t # <<>> /\ Head(t) \in {"-", "+"} THEN Tail(t) ELSE t
    IN  body # <<>> /\ (IsDigit(Head(body)) \/ Head(body) = ".")

\* what a field counts for when every text that is not a number counts as 0
FieldValue(t) == IF IsNumberText(t) THEN OrZero(parseFloat(t)) ELSE Zero
FieldTexts ==
    {calc.dose.mg, calc.dose.iu}
        \cup {calc.peptides[i].vialMg : i \in 1..Len(calc.peptides)}
        \cup {calc.peptides[i].reconMl : i \in 1..Len(calc.peptides)}
TotalsCountNonNumbersAsZero ==
    /\ D.totalVialMg =
           RefSum([i \in 1..Len(calc.peptides) |-> FieldValue(calc.peptides[i].vialMg)])
    /\ D.totalReconMl =
           RefSum([i \in 1..Len(calc.peptides) |-> FieldValue(calc.peptides[i].reconMl)])
    /\ D.totalDoseMg =
           IF Gt0(FieldValue(calc.dose.mg)) THEN FieldValue(calc.dose.mg)
           ELSE IF Gt0(FieldValue(calc.dose.iu))
                THEN NumMul(NumDiv(FieldValue(calc.dose.iu), Hundred), D.mgPerMl)
           ELSE Zero

\* C17: a mass, volume or dose field whose text is empty or is not a number
\* ("abc", "5abc", "5,5", "1 mg") counts as exactly 0 in the totals and in the
\* dose, and the calculator still produces its metrics.
C17_NonNumberIsZero == Computed => TotalsCountNonNumbersAsZero

\* the same where no field that is not a number starts like one
C17_WhenNoLeadingNumber ==
    (Computed /\ \A t \in FieldTexts : IsNumberText(t) \/ ~StartsLikeNumber(t)) =>
        TotalsCountNonNumbersAsZero

C18_SameInputsSameMetrics == derived = Render(calc)

(***************************************************************************)
(* Properties of the calculator's rows and dose (Spec)                     *)
(***************************************************************************)
\* C7: the component list always holds at least 1 and at most 4 components.
C7_ComponentCount == Len(calc.peptides) >= 1 /\ Len(calc.peptides) <= 4

\* C8: no two components share an id.
C8_UniqueIds ==
    \A i, j \in 1..Len(calc.peptides) : i # j => calc.peptides[i].id # calc.peptides[j].id

\* C9: at most one of dose.mg and dose.iu is non-empty: typing into one field
\* leaves the typed text there and empties the other, and clearDose empties both.
C9_DoseExclusive ==
    /\ ~(calc.dose.mg # Empty /\ calc.dose.iu # Empty)
    /\ last.op = "doseMg" => calc.dose.mg = last.text /\ calc.dose.iu = Empty
    /\ last.op = "doseIu" => calc.dose.iu = last.text /\ calc.dose.mg = Empty
    /\ last.op = "clearDose" => calc.dose.mg = Empty /\ calc.dose.iu = Empty

\* a mass was typed while the unit field held a text
C9_Witness ==
    /\ last.op = "doseMg"
    /\ last.text # Empty
    /\ last.dose.iu # Empty
    /\ calc.dose.mg = last.text
    /\ calc.dose.iu = Empty

(***************************************************************************)
(* Properties of the presets (SpecPresets)                                 *)
(***************************************************************************)
\* C10: savePreset with a non-empty name puts the new preset first and keeps
\* the earlier ones behind it in their order, dropping the last one when the
\* list already held 25; the list never holds more than 25 presets.
C10_SavePresetOrder ==
    /\ [](Len(presets) <= 25)
    /\ [][last'.op = "savePreset" =>
            /\ presets' # <<>>
            /\ Head(presets').name = last'.text
            /\ Head(presets').name # Empty
            /\ Head(presets').data = calc
            /\ Head(presets').savedAt = now
            /\ Tail(presets') = IF Len(presets) >= 25 THEN SubSeq(presets, 1, 24)
                                ELSE presets]_vars

\* a 26th preset was saved: the two newest lead and the oldest stored one is gone
C10_Witness ==
    /\ last.op = "savePreset"
    /\ Len(presets) = 25
    /\ presets[1].savedAt = 1
    /\ presets[2].savedAt = 0
    /\ presets[25].savedAt = StoredPreset(2).savedAt

\* the presets of `ps` whose id is `id`
WithId(ps, id) == {i \in 1..Len(ps) : ps[i].id = id}

\* every preset of `after` is a preset of `before`, unaltered
KeptUnaltered(before, after) ==
    \A j \in 1..Len(after) : \E i \in 1..Len(before) : after[j] = before[i]

\* C11: a preset is a snapshot.  savePreset records the calculator's components
\* and dose as they are at the save; no handler alters a preset that stays in
\* the list; loadPreset(id) sets the calculator to the recorded values of every
\* preset of the list that has this id, and leaves it alone when there is none.
C11_PresetSnapshot ==
    [][/\ last'.op = "savePreset" =>
            /\ Head(presets').data = calc
            /\ KeptUnaltered(presets, Tail(presets'))
       /\ last'.op # "savePreset" => KeptUnaltered(presets, presets')
       /\ last'.op = "loadPreset" =>
            /\ \A i \in WithId(presets, last'.id) : calc' = presets[i].data
            /\ WithId(presets, last'.id) = {} => calc' = calc]_vars

\* the same with no two presets of the list sharing an id
DistinctPresetIds(ps) == \A i, j \in 1..Len(ps) : ps[i].id = ps[j].id => i = j

C11_WhenIdsDistinct ==
    [][DistinctPresetIds(presets) =>
        /\ last'.op = "savePreset" =>
            /\ Head(presets').data = calc
            /\ KeptUnaltered(presets, Tail(presets'))
        /\ last'.op # "savePreset" => KeptUnaltered(presets, presets')
        /\ last'.op = "loadPreset" =>
            /\ \A i \in WithId(presets, last'.id) : calc' = presets[i].data
            /\ WithId(presets, last'.id) = {} => calc' = calc]_vars

(***************************************************************************)
(* Properties of the due check (SpecSched)                                 *)
(***************************************************************************)
Checked == due # NotChecked
Range(xs) == {xs[i] : i \in 1..Len(xs)}

\* the day count of the calendar date a YYYY-MM-DD text names
DayNamed(text) ==
    DaysFromCivil(DigitsVal(SubSeq(text, 1, 4), 0), DigitsVal(SubSeq(text, 6, 7), 0),
                  DigitsVal(SubSeq(text, 9, 10), 0))
\* the local weekday of `today`, counted from Monday 2024-01-01
LocalWeekday == (LocalDay(today, tz) - DaysFromCivil(2024, 1, 1) + 1) % 7

\* C1: an EOD alert with start date S is due on D exactly when the number of
\* calendar days from S to the local calendar date of D is even, whatever the
\* time of day of D and the local time zone.
C1_EODParity ==
    (Checked /\ alert.pattern = PEOD /\ NewDate(alert.start) # InvalidDate) =>
        (due[1].app <=> (LocalDay(today, tz) - DayNamed(alert.start)) % 2 = 0)

\* C2: a missing or empty pattern and "Daily" give all seven weekdays, "MTWThF"
\* Mon..Fri, "MWF" Mon, Wed, Fri, "TuThSa" Tue, Thu, Sat, "Sat" Sat and "Sun"
\* Sun, in both variants; an alert whose pattern is not "EOD" is due exactly
\* when the local weekday of the date is one of the days of its pattern.
C2_NamedPatterns ==
    Checked =>
        LET days == Range(due[1].days)
            days1 == Range(due[1].days1)
            p == alert.pattern
        IN  /\ p \in {Missing, Empty, PDaily} => days = 0..6 /\ days1 = 0..6
            /\ p = PMTWThF => days = {1, 2, 3, 4, 5} /\ days1 = {1, 2, 3, 4, 5}
            /\ p = PMWF => days = {1, 3, 5} /\ days1 = {1, 3, 5}
            /\ p = PTuThSa => days = {2, 4, 6} /\ days1 = {2, 4, 6}
            /\ p = PSat => days = {6} /\ days1 = {6}
            /\ p = PSun => days = {0} /\ days1 = {0}
            /\ p # PEOD => /\ due[1].app <=> LocalWeekday \in days
                           /\ due[1].part1 <=> LocalWeekday \in days1
            /\ (p = PMWF /\ LocalWeekday = 3) => due[1].app /\ due[1].part1
            /\ (p = PMWF /\ LocalWeekday = 2) => ~due[1].app /\ ~due[1].part1

\* an MWF alert checked on a Wednesday
C2_Witness ==
    /\ Checked
    /\ alert.pattern = PMWF
    /\ getDay(today, tz) = 3
    /\ due[1].app /\ due[1].part1

\* the spellings of weekday d in the abbreviation table
Abbreviations(d) ==
    CASE d = 0 -> {<<"S", "u">>, <<"S", "u", "n">>}
      [] d = 1 -> {<<"M">>, <<"M", "o", "n">>}
      [] d = 2 -> {<<"T", "u">>, <<"T", "u", "e">>}
      [] d = 3 -> {<<"W">>, <<"W", "e", "d">>}
      [] d = 4 -> {<<"T", "h">>, <<"T", "h", "u">>}
      [] d = 5 -> {<<"F">>, <<"F", "r", "i">>}
      [] d = 6 -> {<<"S", "a">>, <<"S", "a", "t">>}

\* w occurs in p as a whole token: between non-word characters or the ends
IsToken(p, w) ==
    \E i \in 1..Len(p) :
        /\ i + Len(w) - 1 <= Len(p)
        /\ SubSeq(p, i, i + Len(w) - 1) = w
        /\ i = 1 \/ ~IsWordChar(p[i - 1])
        /\ i + Len(w) - 1 = Len(p) \/ ~IsWordChar(p[i + Len(w)])

\* the weekdays with a spelling that is a token of p
TokenDays(p) == {d \in 0..6 : \E w \in Abbreviations(d) : IsToken(p, w)}

\* the codes patternToDays answers without looking at tokens (either variant)
NamedCodes == {Missing, Empty, PDaily, PMTWThF, PMWF, PTuThSa, PSat, PSa, PSun}

\* C14: for a pattern that is not a named code, both variants of patternToDays
\* return exactly the weekdays of which a spelling occurs as a whole token.
C14_TokenDays ==
    (Checked /\ alert.pattern \notin NamedCodes) =>
        /\ Range(due[1].days) = TokenDays(alert.pattern)
        /\ Range(due[1].days1) = TokenDays(alert.pattern)

\* C14 as amended: src/src/App.jsx returns exactly those weekdays; so does
\* src/unnamed/part_001 when there is at least one, and all seven weekdays
\* when no token is recognised.
C14_TokenDaysOrAll ==
    (Checked /\ alert.pattern \notin NamedCodes) =>
        /\ Range(due[1].days) = TokenDays(alert.pattern)
        /\ TokenDays(alert.pattern) # {} => Range(due[1].days1) = TokenDays(alert.pattern)
        /\ TokenDays(alert.pattern) = {} => Range(due[1].days1) = 0..6

\* "M, X, F" was resolved to Monday and Friday
C14_Witness ==
    /\ Checked
    /\ alert.pattern = <<"M", ",", " ", "X", ",", " ", "F">>
    /\ Range(due[1].days) = {1, 5}
    /\ Range(due[1].days1) = {1, 5}

\* C23: the two patternToDays return the same list for a pattern that is
\* missing or empty, a named code, or holds a recognised token; on any other
\* pattern App.jsx returns the empty list and part_001 all seven days.
C23_VariantsAgree ==
    Checked =>
        IF alert.pattern \in NamedCodes \/ TokenDays(alert.pattern) # {}
        THEN due[1].days = due[1].days1
        ELSE due[1].days = <<>> /\ due[1].days1 = <<0, 1, 2, 3, 4, 5, 6>>

\* "xyz" was resolved by both: no day in App.jsx, every day in part_001
C23_Witness ==
    /\ Checked
    /\ alert.pattern = <<"x", "y", "z">>
    /\ due[1].days = <<>>
    /\ Len(due[1].days1) = 7

\* the instants of the same time of day as `today`
SameTimeOfDay == {d \in Instants : (d - today) % MinutesPerDay = 0}

\* C15: the due check never ends in an exception, whatever strings (or nothing)
\* the pattern, the start and the plan are.  A missing or empty pattern is due
\* every day; a pattern with no recognised token is never due (src/src/App.jsx)
\* or due every day (src/unnamed/part_001); an EOD alert whose start is not a
\* date is never due, and one with no start gets the same answer on every day;
\* an alert with no plan, or with a plan naming no day, is never due.
C15_NeverThrows ==
    Checked =>
        LET p == alert.pattern
        IN  /\ ~due[1].threw
            /\ ~due[1].threw1
            /\ p \in {Missing, Empty} => due[1].app /\ due[1].part1
            /\ (p \notin NamedCodes \cup {PEOD} /\ TokenDays(p) = {}) =>
                    ~due[1].app /\ due[1].part1
            /\ (p = PEOD /\ alert.start # Missing /\ NewDate(alert.start) = InvalidDate) =>
                    ~due[1].app /\ ~due[1].part1
            /\ (p = PEOD /\ alert.start = Missing) =>
                    \A d \in SameTimeOfDay :
                        /\ isAlertDueToday(alert, d, tz) = due[1].app
                        /\ isAlertDueToday1(alert, d, tz) = due[1].part1
            /\ alert.plan \in {Missing, Empty} => ~due[1].plan
            /\ due[1].planDays = <<>> => ~due[1].plan

\* a pattern of no recognised token was checked: never due in one variant, due
\* in the other, no exception
C15_Witness ==
    /\ Checked
    /\ alert.pattern = <<"x", "y", "z">>
    /\ ~due[1].threw /\ ~due[1].threw1
    /\ ~due[1].app
    /\ due[1].part1

\* C19: the days of the plan "M-W-F after workout - 50 IU" (with an em dash)
\* include Mon, Wed and Fri, and an alert with this plan is due on Mondays,
\* Wednesdays and Fridays.
C19_PlanMWF ==
    (Checked /\ alert.plan = PlanMWF) =>
        /\ {"Mon", "Wed", "Fri"} \subseteq Range(due[1].planDays)
        /\ LocalWeekday \in {1, 3, 5} => due[1].plan

\* the plan was checked on a Friday
C19_Witness ==
    /\ Checked
    /\ alert.plan = PlanMWF
    /\ LocalWeekday = 5
    /\ due[1].plan

\* the normalized text of the alert's plan, in lower case
PlanText == toLowerCase(normalizePlan(alert.plan))

\* w occurs somewhere in t
OccursIn(t, w) == \E i \in 1..Len(t) : i + Len(w) - 1 <= Len(t) /\ SubSeq(t, i, i + Len(w) - 1) = w

\* C20: a weekday is among the days of a plan whenever one of its spellings
\* occurs anywhere in the normalized text, also inside a longer word.
C20_SpellingAnywhere ==
    Checked =>
        \A d \in 1..7 :
            (\E w \in PlanSpellings[d] : OccursIn(PlanText, w)) =>
                DOW_SHORT[d] \in Range(due[1].planDays)

\* C20 as amended: a weekday is among the days of a plan exactly when one of
\* its spellings occurs in the normalized text as a whole word (between
\* non-word characters or the ends); inside a longer word it does not count.
C20_SpellingAsWord ==
    Checked =>
        /\ \A d \in 1..7 :
                DOW_SHORT[d] \in Range(due[1].planDays)
                    <=> \E w \in PlanSpellings[d] : IsToken(PlanText, w)
        /\ alert.plan = <<"M", "o", "n", "d", "a", "y">> => due[1].planDays = <<>>

\* "su/thur|SA" was resolved to Sunday, Thursday and Saturday
C20_Witness ==
    /\ Checked
    /\ alert.plan = <<"s", "u", "/", "t", "h", "u", "r", "|", "S", "A">>
    /\ due[1].planDays = <<"Sun", "Thu", "Sat">>

\* the alert's plan as typed, in lower case
TypedPlan == toLowerCase(alert.plan)
\* the tokens that name a weekday in a plan: the spellings, tu, th and the
\* single letters
WeekdayTokens ==
    UNION {PlanSpellings[d] : d \in 1..7} \cup {<<"t", "u">>, <<"t", "h">>, <<"m">>, <<"w">>, <<"f">>}
LetterDays ==
    {<<"Mon", <<"m">>, <<"m", "o", "n">>>>, <<"Wed", <<"w">>, <<"w", "e", "d">>>>,
     <<"Fri", <<"f">>, <<"f", "r", "i">>>>}

\* C21: Monday, Wednesday or Friday is among the days of a plan only when its
\* letter (m, w, f) or its three-letter spelling is an isolated token of the
\* plan; a letter inside a longer word adds no day ("2mg AM/PM after workout"
\* has no day), and a plan with no weekday token has no day and is never due.
C21_IsolatedLetters ==
    (Checked /\ alert.plan # Missing) =>
        /\ \A ld \in LetterDays :
              ld[1] \in Range(due[1].planDays) <=>
                  \/ IsToken(TypedPlan, ld[2])
                  \/ IsToken(TypedPlan, ld[3])
        /\ (\A w \in WeekdayTokens : ~IsToken(TypedPlan, w)) =>
              due[1].planDays = <<>> /\ ~due[1].plan
        /\ alert.plan = PlanNoDay => due[1].planDays = <<>>

\* a plan whose m, w and f all sit inside words was resolved
C21_Witness ==
    /\ Checked
    /\ alert.plan = PlanNoDay
    /\ due[1].planDays = <<>>
    /\ ~due[1].plan

(***************************************************************************)
(* Properties of load and save (SpecStore)                                 *)
(***************************************************************************)
WasLoaded == loaded # NotLoaded
\* the item the last load read (no write has happened since)
ItemRead == store[loaded[1].key]
IsJson(item) == item # NoItem /\ item.p = "json"

\* C12: load never throws; it returns the caller's fallback when the item is
\* missing or is not valid JSON, and the stored value when the item is valid.
C12_LoadFallback ==
    WasLoaded =>
        /\ ~loaded[1].result.threw
        /\ ~IsJson(ItemRead) => loaded[1].result.value = loaded[1].fallback
        /\ IsJson(ItemRead) => loaded[1].result.value = ItemRead.doc

\* C12 as amended: as above, except that a stored null is answered with the
\* fallback too.
C12_LoadFallbackOrNull ==
    WasLoaded =>
        /\ ~loaded[1].result.threw
        /\ ~IsJson(ItemRead) => loaded[1].result.value = loaded[1].fallback
        /\ IsJson(ItemRead) /\ ItemRead.doc = Null =>
                loaded[1].result.value = loaded[1].fallback
        /\ IsJson(ItemRead) /\ ItemRead.doc # Null =>
                loaded[1].result.value = ItemRead.doc

\* a truncated text was read and the fallback came back
C12_Witness ==
    /\ WasLoaded
    /\ ItemRead = OtherText(<<"[", "{">>)
    /\ loaded[1].result = Returned(loaded[1].fallback)

WasSaved == saved # NotSaved

\* C13: a value the app saved under a key is what load returns for that key,
\* whatever the fallback, and the save leaves what load returns for every
\* other key as it was.
C13_SaveLoadRoundTrip ==
    /\ [](WasLoaded /\ WasSaved /\ loaded[1].key = saved[1].key =>
            loaded[1].result = Returned(saved[1].value))
    /\ [][saved' # NotSaved /\ saved' # saved =>
            \A k \in StoreKeys \ {saved'[1].key}, fallback \in Fallbacks :
                load(store', k, fallback) = load(store, k, fallback)]_vars

\* the alert collection was saved and read back, over a foreign item under the
\* other key
C13_Witness ==
    /\ WasLoaded
    /\ WasSaved
    /\ loaded[1].key = KEY_ALERTS
    /\ saved[1].key = KEY_ALERTS
    /\ loaded[1].result.value = saved[1].value
    /\ loaded[1].result.value # loaded[1].fallback
    /\ store[KEY_CALC] = JsonText(Str(<<"x">>))

(***************************************************************************)
(* Properties of the dashboard across a reload (SpecReload)                *)
(***************************************************************************)
Reloaded == last'.op = "reload"
PersistedState == <<kpis, history, alerts, doneToday, rows, notesText, calc, presets>>

\* C22: across a reload the KPIs, the history, the alerts, today's done-marks,
\* the stack rows, the checklist marks, the notes, the calculator inputs and
\* the presets keep the values they had just before it.
C22_AllPersisted ==
    [][Reloaded => (PersistedState' = PersistedState /\ checklist' = checklist)]_vars

\* all of them but the checklist marks do
C22_AllButChecklist == [][Reloaded => PersistedState' = PersistedState]_vars

(***************************************************************************)
(* Properties of the alert list (SpecAlerts)                               *)
(***************************************************************************)
\* C24: the list never holds more than 8 alerts; Add on a list of 8 leaves it
\* as it is; field edits and removals never make it longer.
C24_AtMostEight ==
    /\ [](Len(alerts) <= 8)
    /\ [][/\ (last'.op = "addAlert" /\ Len(alerts) = 8) => alerts' = alerts
          /\ last'.op \in {"updateAlertField", "removeAlert"} => Len(alerts') <= Len(alerts)]_vars

\* Add was clicked on a list of 8
C24_Witness ==
    /\ last.op = "addAlert"
    /\ last.text = <<"8">>
    /\ Len(alerts) = 8

(***************************************************************************)
(* Properties of the due alerts and the done lists (SpecDue)               *)
(***************************************************************************)
AlertsDueNow == {alerts[i] : i \in {k \in 1..Len(alerts) : isAlertDueToday(alerts[k], today, tz)}}

\* C25: at every moment the alerts displayed as due are the alerts a with
\* isAlertDueToday(a, current date), also after an edit of a pattern and
\* after the date has changed while the app is open.
C25_DueNow == Range(dueAlerts) = AlertsDueNow

\* the ids held under the done key of the date d, in their order
DoneListOf(d) ==
    LET item == store[KEY_DONE(todayKey(d))]
    IN  IF item = NoItem THEN <<>> ELSE IdsOfJs(item.doc)
DatesOfModel == {k * MinutesPerDay : k \in 0..3}

\* C26: the list under mpr-done-<date> holds only ids that were ticked while
\* todayKey() was that date, each of them once.
C26_DoneOnItsDate ==
    \A d \in DatesOfModel :
        /\ \A i \in 1..Len(DoneListOf(d)) : <<todayKey(d), DoneListOf(d)[i]>> \in marked
        /\ \A i, j \in 1..Len(DoneListOf(d)) : DoneListOf(d)[i] = DoneListOf(d)[j] => i = j

\* no id is twice in a done list
C26_NoDuplicates ==
    \A d \in DatesOfModel :
        \A i, j \in 1..Len(DoneListOf(d)) : DoneListOf(d)[i] = DoneListOf(d)[j] => i = j

(***************************************************************************)
(* Properties of Mark Complete (SpecMark)                                  *)
(***************************************************************************)
RecordOfToday == history[FindIndexOfDate(history, todayKey(today))]

\* C27: once the delayed saveToday of Mark Complete has run, today's history
\* record holds a checklist in which every schedule row is done.
C27_SavedAllDone ==
    last.op = "saveToday (timer)" =>
        /\ FindIndexOfDate(history, todayKey(today)) > 0
        /\ \A i \in 1..Len(rows) : RecordOfToday.checklist[rows[i].id]

\* what it holds is the checklist of the render in which the button was
\* clicked: every action property below is about a step of the timer
C27_SavedAsBeforeClick ==
    [][last'.op = "saveToday (timer)" =>
          history'[FindIndexOfDate(history', todayKey(today))].checklist
              = Head(timers).checklist]_vars

(***************************************************************************)
(* Properties of the history (SpecHistory)                                 *)
(***************************************************************************)
Saving == last'.op \in {"saveTodayKPIs", "saveToday"}

\* C28: the history holds at most one record per date; a Save Today on a date
\* that has a record puts the current KPIs into that record, where it is, a
\* Save Today on a new date appends one record, and the records of the other
\* dates stay as they are.
C28_UpsertByDate ==
    /\ [](\A i, j \in 1..Len(history) : history[i].date = history[j].date => i = j)
    /\ [][Saving =>
            LET k == todayKey(today)
                at == {i \in 1..Len(history) : history[i].date = k}
            IN  IF at # {}
                THEN /\ Len(history') = Len(history)
                     /\ \A i \in 1..Len(history) :
                            IF i \in at
                            THEN history'[i].date = k /\ history'[i].kpis = kpis
                            ELSE history'[i] = history[i]
                ELSE /\ Len(history') = Len(history) + 1
                     /\ SubSeq(history', 1, Len(history)) = history
                     /\ history'[Len(history')].date = k
                     /\ history'[Len(history')].kpis = kpis]_vars

\* the record of the first day was replaced where it was by a Save Today
\* with other KPIs, the record of the third day is as it was, and the second
\* day has got its own record at the end
C28_Witness ==
    /\ last.op = "saveTodayKPIs"
    /\ Len(history) = 3
    /\ history[1].date = DayKey(0)
    /\ history[1].kpis # SeedKpis
    /\ history[2] = [date |-> DayKey(2), kpis |-> EmptyKpis]
    /\ history[3].date = DayKey(1)
    /\ history[3].kpis = kpis

(***************************************************************************)
(* Properties of the schedule rows (SpecRows)                              *)
(***************************************************************************)
RECURSIVE TrimSpaces(_)
TrimSpaces(t) ==
    IF t # <<>> /\ Head(t) = " " THEN TrimSpaces(Tail(t))
    ELSE IF t # <<>> /\ t[Len(t)] = " " THEN TrimSpaces(SubSeq(t, 1, Len(t) - 1))
    ELSE t

\* the names a text lists, separated by commas
ListedDays(t) ==
    {TrimSpaces(SubSeq(t, i, j)) : <<i, j>> \in
        {p \in (1..(Len(t) + 1)) \X (0..Len(t)) :
            /\ p[2] >= p[1] - 1
            /\ p[1] = 1 \/ t[p[1] - 1] = ","
            /\ p[2] = Len(t) \/ t[p[2] + 1] = ","
            /\ \A k \in p[1]..p[2] : t[k] # ","}}

\* the days of a weekly row: the names of its array, or the names its text lists
DaysOfRow(r) ==
    IF r.days.t = "array" THEN {r.days.items[k].s : k \in 1..Len(r.days.items)}
    ELSE IF r.days.t = "string" THEN ListedDays(r.days.s) \ {Empty}
    ELSE {}
HasDays(r) == r.days.t = "array" \/ (r.days.t = "string" /\ r.days.s # <<>>)
Shown(r) == \E k \in 1..Len(visibleRows) : visibleRows[k].id = r.id

\* C29: a weekly row with days is shown if and only if the short name of the
\* day is one of its days, also after its days were edited; a row that is
\* not weekly is shown every day.
C29_WeekliesOnDueDays ==
    \A i \in 1..Len(rows) :
        /\ rows[i].time # "Weekly" => Shown(rows[i])
        /\ rows[i].time = "Weekly" /\ HasDays(rows[i]) =>
              (Shown(rows[i]) <=> todayDowShort(today, tz) \in DaysOfRow(rows[i]))

\* it is so in every render in which the rows have changed
C29_WhenRowsChange ==
    [][rows' # rows =>
        \A i \in 1..Len(rows') :
            LET shown == \E k \in 1..Len(visibleRows') : visibleRows'[k].id = rows'[i].id
            IN  /\ rows'[i].time # "Weekly" => shown
                /\ rows'[i].time = "Weekly" /\ HasDays(rows'[i]) =>
                      (shown <=> todayDowShort(today', tz') \in DaysOfRow(rows'[i]))]_vars

(***************************************************************************)
(* Properties of the four-week protocol (SpecCycle)                        *)
(***************************************************************************)
\* C30: weekIndexInCycle is 0, 1, 2 or 3 and is one more, modulo 4, seven
\* days later, and the schedule shows Tesamorelin as the day map of that week
\* says.
C30_AdvancesEverySevenDays ==
    /\ [](/\ weekIndexInCycle(today, tz) \in 0..3
          /\ Includes(schedule, "tesa")
                <=> PROTOCOL_4W_weeks[weekIndexInCycle(today, tz) + 1][getDay(today, tz) + 1])
    /\ [][LocalDay(today', tz) = LocalDay(today, tz) + WeekDays =>
            weekIndexInCycle(today', tz) = (weekIndexInCycle(today, tz) + 1) % 4]_vars

\* on every day the week is the first one, and the schedule follows its map
C30_AlwaysFirstWeek ==
    /\ weekIndexInCycle(today, tz) = 0
    /\ Includes(schedule, "tesa") <=> PROTOCOL_4W_weeks[1][getDay(today, tz) + 1]

====
